---- MODULE Spec2Model ----
(***************************************************************************)
(* EchoSync (ESP) multiplayer game protocol: the authoritative server of   *)
(* src/server.py, the client of src/client.py and the shared definitions   *)
(* of src/ESP_config.py.                                                   *)
(*                                                                         *)
(* A packet is the record of the header fields the handlers read           *)
(* (msg_type, pkt_id, seq, snapshot_id) and its payload; a payload is the  *)
(* sequence of the fields that struct.pack lays out, in wire order.  The   *)
(* handlers see parsed packets only, without timestamp and CRC; the bytes  *)
(* of a datagram, header and checksum included, are the subject of         *)
(* CodecSpec.  Every message body of the protocol is shorter than          *)
(* SNAPSHOT_PAYLOAD_LIMIT (the largest, SNAPSHOT, is 400 bytes), so        *)
(* build_packet emits one fragment per protocol message and                *)
(* FragmentManager delivers it at once with seq_keys = [seq].  Bodies      *)
(* longer than the limit, byte by byte, are the subject of FragSpec.       *)
(*                                                                         *)
(* build_packet returns the pair (packets, next seq).  Server.send and     *)
(* Client.send are modelled as emitting each packet of the first           *)
(* component, one sequence number and one unacked entry per fragment       *)
(* (Send, client_send): this is the send that the handlers are checked     *)
(* with.  The loop as it stands in src/, over the pair itself, is          *)
(* send_pair and client_send_pair, the subject of PairSpec.                *)
(*                                                                         *)
(* The grid is modelled on the cells 0..MaxCell, the only cells that the   *)
(* inputs of the model name; TOTAL_CELLS stands for an index out of range. *)
(* Python dicts iterate in insertion order: room.players and               *)
(* unacked_packets are sequences in insertion order.                       *)
(* The telemetry writer (MetricsLogger) and LIST_ROOMS are outside the     *)
(* model.                                                                  *)
(***************************************************************************)
EXTENDS Integers, Sequences, FiniteSets, TLC

\* ---------------------------------------------------------------- bounds
NumStrangers == 1
NumLeavers == 1
NumAckers == 1
MaxNewPlayers == 1
MaxRooms == 2
MaxCell == 0
MaxInSeq == 1
MaxSends == 3
MaxPkts == 2
MaxSnap == 2
MaxUnacked == 5
MaxDraws == 1
NumClients == 2
MaxClientSends == 2
MaxWire == 3
MaxFrags == 3
MaxStartSeq == 2
MaxHistory == 4
MaxBroadcasts == 2
MaxBehind == 2

\* ------------------------------------------------------ program constants
TOTAL_CELLS == 400
REDUNDANT_K_PACKETS == 3
REDUNDANT_K_UPDATES == 3
LAST_K_UPDATES == 10
MAX_TRANSMISSION_RETRIES == 5
REQUIRED_ROOM_PLAYERS == 4
CELL_ACQUISITION == 0
MAX_PACKET == 1200
HEADER_SIZE == 32
VERSION == 1
SNAPSHOT_PAYLOAD_LIMIT == MAX_PACKET - HEADER_SIZE

MESSAGE_TYPES ==
  [INIT |-> 0, INIT_ACK |-> 1, CREATE_ROOM |-> 2, CREATE_ACK |-> 3,
   JOIN_ROOM |-> 4, JOIN_ACK |-> 5, LEAVE_ROOM |-> 6, LEAVE_ACK |-> 7,
   LIST_ROOMS |-> 8, LIST_ROOMS_ACK |-> 9, EVENT |-> 10, UPDATES |-> 11,
   UPDATES_ACK |-> 12, SNAPSHOT |-> 13, SNAPSHOT_ACK |-> 14,
   DISCONNECT |-> 15]

\* the addresses of the players of a full room, and of NumStrangers more
Addrs == 1..(REQUIRED_ROOM_PLAYERS + NumStrangers)
Cells == 0..MaxCell
\* a colour stands for an RGB triple; one more than a room can hold
Colors == 1..(REQUIRED_ROOM_PLAYERS + 1)

\* ------------------------------------------------------------ server state
VARIABLES next_player_id, players, addr_to_player, next_room_id, rooms,
          pkt_id, seq, unacked_packets, out

\* the clients that the model runs, by address, and the datagrams in flight
VARIABLES clients, wire

\* one logical message on its way to a receiver's FragmentManager: the
\* message, its fragments still to arrive, the fragments lost, the
\* FragmentManager.fragments table and the results handed to the dispatcher
VARIABLES message, channel, dropped, fragments, delivered

fragvars == <<message, channel, dropped, fragments, delivered>>

vars == <<next_player_id, players, addr_to_player, next_room_id, rooms,
          pkt_id, seq, unacked_packets, out, clients, wire,
          message, channel, dropped, fragments, delivered>>

\* ------------------------------------------------------------ helpers
EmptyFcn == [x \in {} |-> 0]

Put(f, k, v) == [x \in (DOMAIN f) \cup {k} |-> IF x = k THEN v ELSE f[x]]

Drop(f, k) == [x \in (DOMAIN f) \ {k} |-> f[x]]

LastK(q, k) ==
  IF k >= Len(q) THEN q ELSE SubSeq(q, Len(q) - k + 1, Len(q))

RemoveAt(q, i) == SubSeq(q, 1, i - 1) \o SubSeq(q, i + 1, Len(q))

Repeat(x, n) == [i \in 1..n |-> x]

\* ---------------------------------------------------------------- codec
Packet(msg_type, pid, seq_num, payload, snapshot_id) ==
  [msg_type |-> msg_type, pkt_id |-> pid, seq |-> seq_num,
   snapshot_id |-> snapshot_id, payload_len |-> Len(payload),
   payload |-> payload]

\* the loop of build_packet over the fragments: frag_data is the next
\* max_data bytes of what is left of the payload
RECURSIVE build_fragments(_,_,_,_,_,_)
build_fragments(packets, msg_type, pid, seq_num, rest, snapshot_id) ==
  IF rest = <<>> THEN packets
  ELSE LET max_data == SNAPSHOT_PAYLOAD_LIMIT
           end == IF Len(rest) < max_data THEN Len(rest) ELSE max_data
           frag_data == SubSeq(rest, 1, end)
       IN build_fragments(
            Append(packets,
                   Packet(msg_type, pid, seq_num, frag_data, snapshot_id)),
            msg_type, pid, seq_num + 1, SubSeq(rest, end + 1, Len(rest)),
            snapshot_id)

\* the packets of the pair that build_packet returns
build_packet(msg_type, pid, start_seq, payload, snapshot_id) ==
  IF payload = <<>>
  THEN << Packet(msg_type, pid, start_seq, <<>>, snapshot_id) >>
  ELSE build_fragments(<<>>, msg_type, pid, start_seq, payload, snapshot_id)

build_init_ack_payload(seq_num, player_id) == <<seq_num, player_id>>

build_create_ack_payload(seq_num, room_id) == <<seq_num, room_id>>

build_join_room_payload(room_id) == <<room_id>>

parse_join_room_payload(payload) ==
  IF Len(payload) < 1 THEN 0 ELSE payload[1]

RECURSIVE RosterEntries(_)
RosterEntries(roster) ==
  IF roster = <<>> THEN <<>>
  ELSE <<roster[1].global_id, roster[1].lid, roster[1].color>>
         \o RosterEntries(Tail(roster))

build_join_ack_payload(seq_num, room_id, player_local_id, roster) ==
  <<seq_num, room_id, player_local_id, Len(roster)>> \o RosterEntries(roster)

build_leave_ack_payload(seq_num, roster) ==
  <<seq_num, Len(roster)>> \o RosterEntries(roster)

build_event_payload(event_type, room_id, player_local_id, cell_idx) ==
  <<event_type, room_id, player_local_id, cell_idx>>

RECURSIVE UpdateEntries(_)
UpdateEntries(updates) ==
  IF updates = <<>> THEN <<>>
  ELSE <<updates[1][1], updates[1][2], updates[1][3]>>
         \o UpdateEntries(Tail(updates))

build_updates_payload(updates) == <<Len(updates)>> \o UpdateEntries(updates)

build_updates_ack_payload(seq_num) == <<seq_num>>

parse_updates_ack_payload(payload) ==
  IF Len(payload) < 1 THEN 0 ELSE payload[1]

build_snapshot_payload(grid) == grid

build_snapshot_ack_payload(seq_num) == <<seq_num>>

parse_snapshot_ack_payload(payload) ==
  IF Len(payload) < 1 THEN 0 ELSE payload[1]

\* ------------------------------------------------------------ data types
PlayerRoomInfo(address) ==
  [address |-> address, room_id |-> 0, player_local_id |-> 0]

RoomPlayer(lid, global_id, color) ==
  [lid |-> lid, global_id |-> global_id, color |-> color]

Room ==
  [snapshot_id |-> 0, players |-> <<>>,
   grid |-> [i \in 1..(MaxCell + 1) |-> 0], updates |-> <<>>]

RosterLids(room) == {room.players[i].lid : i \in 1..Len(room.players)}

\* a colour test that sees no colour in the room
NoColors(room) == {}

RosterColors(room) == {room.players[i].color : i \in 1..Len(room.players)}

RosterIndex(room, lid) ==
  CHOOSE i \in 1..Len(room.players) : room.players[i].lid = lid

\* the server as one record, so that a handler is a function of it
SV ==
  [next_player_id |-> next_player_id, players |-> players,
   addr_to_player |-> addr_to_player, next_room_id |-> next_room_id,
   rooms |-> rooms, pkt_id |-> pkt_id, seq |-> seq,
   unacked_packets |-> unacked_packets, out |-> <<>>]

\* no fragmented message is in transit
NoFragments ==
  /\ message = <<>>
  /\ channel = {}
  /\ dropped = {}
  /\ fragments = EmptyFcn
  /\ delivered = <<>>

servervars ==
  <<next_player_id, players, addr_to_player, next_room_id, rooms,
    pkt_id, seq, unacked_packets, out, clients, wire>>

ServerStart(s) ==
  /\ next_player_id = s.next_player_id
  /\ players = s.players
  /\ addr_to_player = s.addr_to_player
  /\ next_room_id = s.next_room_id
  /\ rooms = s.rooms
  /\ pkt_id = s.pkt_id
  /\ seq = s.seq
  /\ unacked_packets = s.unacked_packets
  /\ out = s.out
  /\ clients = EmptyFcn
  /\ wire = {}

Commit_Init(s) == ServerStart(s) /\ NoFragments

Commit(s) ==
  /\ next_player_id' = s.next_player_id
  /\ players' = s.players
  /\ addr_to_player' = s.addr_to_player
  /\ next_room_id' = s.next_room_id
  /\ rooms' = s.rooms
  /\ pkt_id' = s.pkt_id
  /\ seq' = s.seq
  /\ unacked_packets' = s.unacked_packets
  /\ out' = s.out
  /\ UNCHANGED <<clients, wire>>
  /\ UNCHANGED fragvars

\* --------------------------------------------------------------- send
Unacked(seq_num, player_id, p, msg_type) ==
  [seq |-> seq_num, player_id |-> player_id, packet |-> p,
   msg_type |-> msg_type, sent_count |-> 0, fresh |-> TRUE]

RECURSIVE SendPkts(_,_,_,_,_,_,_)
SendPkts(s, pkts, msg_type, address, player_id, ack, repeat) ==
  IF pkts = <<>> THEN s
  ELSE LET p == pkts[1]
           copies == Repeat([to |-> address, pkt |-> p], repeat)
           s1 == [s EXCEPT
                    !.out = @ \o copies,
                    !.unacked_packets =
                       IF ack
                       THEN Append(@, Unacked(s.seq[player_id], player_id,
                                              p, msg_type))
                       ELSE @,
                    !.seq = [@ EXCEPT ![player_id] = @ + 1]]
       IN SendPkts(s1, Tail(pkts), msg_type, address, player_id, ack, repeat)

Send(s, msg_type, address, payload, ack, repeat) ==
  LET rep == IF ack THEN 1 ELSE repeat
      failed == [ok |-> FALSE, s |-> s]
  IN IF rep < 1 THEN failed
     ELSE IF address \notin DOMAIN s.addr_to_player THEN failed
     ELSE LET player_id == s.addr_to_player[address] IN
       IF player_id \notin DOMAIN s.seq THEN failed
       ELSE LET snapshot_id ==
                  IF /\ player_id \in DOMAIN s.players
                     /\ s.players[player_id].room_id \in DOMAIN s.rooms
                  THEN s.rooms[s.players[player_id].room_id].snapshot_id
                  ELSE 0
                pkts == build_packet(msg_type, s.pkt_id, s.seq[player_id],
                                     payload, snapshot_id)
            IN [ok |-> TRUE,
                s |-> SendPkts(s, pkts, msg_type, address, player_id,
                               ack, rep)]

ack_packet_index(s, seq_num, player_id) ==
  {i \in 1..Len(s.unacked_packets) :
     /\ s.unacked_packets[i].seq = seq_num
     /\ s.unacked_packets[i].player_id = player_id}

\* ------------------------------------------------------------- handlers
\* seq_keys of a received message: one fragment, its own sequence number
seq_keys(pkt) == <<pkt.seq>>

handle_init(s, pkt, addr) ==
  LET npid == s.next_player_id
      s1 == [s EXCEPT !.players = Put(@, npid, PlayerRoomInfo(addr)),
                      !.addr_to_player = Put(@, addr, npid),
                      !.seq = Put(@, npid, 1)]
      r == Send(s1, MESSAGE_TYPES.INIT_ACK, addr,
                build_init_ack_payload(seq_keys(pkt)[1], npid), FALSE, 1)
  IN IF ~r.ok THEN r.s
     ELSE [r.s EXCEPT !.next_player_id = @ + 1, !.pkt_id = @ + 1]

handle_create_room(s, pkt, addr) ==
  LET room_id == s.next_room_id
      s1 == [s EXCEPT !.rooms = Put(@, room_id, Room)]
      r == Send(s1, MESSAGE_TYPES.CREATE_ACK, addr,
                build_create_ack_payload(seq_keys(pkt)[1], room_id), FALSE, 1)
  IN IF ~r.ok THEN r.s
     ELSE [r.s EXCEPT !.next_room_id = @ + 1, !.pkt_id = @ + 1]

\* for local_id in range(1, REQUIRED_ROOM_PLAYERS + 1): first one not in use
FreeLocalIds(room) == (1..REQUIRED_ROOM_PLAYERS) \ RosterLids(room)

\* the slot after the last one of the roster, whether or not it is free
NextSlot(room) == Len(room.players) + 1

LowestFree(room) ==
  CHOOSE l \in FreeLocalIds(room) : \A k \in FreeLocalIds(room) : l <= k

RECURSIVE join_fanout(_,_,_,_,_)
join_fanout(acc, roster, i, pkt, room_id) ==
  IF i > Len(roster) THEN acc
  ELSE LET player == roster[i] IN
    IF player.global_id \notin DOMAIN acc.s.players
    THEN join_fanout(acc, roster, i + 1, pkt, room_id)
    ELSE LET address == acc.s.players[player.global_id].address
             payload == build_join_ack_payload(seq_keys(pkt)[1], room_id,
                                               player.lid, roster)
             r == Send(acc.s, MESSAGE_TYPES.JOIN_ACK, address, payload,
                       FALSE, REDUNDANT_K_PACKETS)
         IN join_fanout([s |-> r.s, sent |-> acc.sent \/ r.ok],
                        roster, i + 1, pkt, room_id)

\* color is the outcome of the random draw that ended the resampling loop
handle_join_room(s, pkt, addr, color) ==
  LET room_id == parse_join_room_payload(pkt.payload) IN
  IF room_id \notin DOMAIN s.rooms THEN s
  ELSE IF addr \notin DOMAIN s.addr_to_player THEN s
  ELSE LET room == s.rooms[room_id]
           player_id == s.addr_to_player[addr]
       IN
    IF player_id \notin DOMAIN s.seq THEN s
    ELSE IF FreeLocalIds(room) = {} THEN s
    ELSE LET local_id == LowestFree(room)
             roster == Append(room.players,
                              RoomPlayer(local_id, player_id, color))
             s1 == [s EXCEPT
                      !.rooms[room_id].players = roster,
                      !.players[player_id].room_id = room_id,
                      !.players[player_id].player_local_id = local_id]
             acc == join_fanout([s |-> s1, sent |-> FALSE], roster, 1,
                                pkt, room_id)
         IN IF acc.sent THEN [acc.s EXCEPT !.pkt_id = @ + 1] ELSE acc.s

RECURSIVE leave_fanout(_,_,_,_)
leave_fanout(acc, roster, i, pkt) ==
  IF i > Len(roster) THEN acc
  ELSE LET player == roster[i] IN
    IF player.global_id \notin DOMAIN acc.s.players
    THEN leave_fanout(acc, roster, i + 1, pkt)
    ELSE LET address == acc.s.players[player.global_id].address
             payload == build_leave_ack_payload(seq_keys(pkt)[1], roster)
             r == Send(acc.s, MESSAGE_TYPES.LEAVE_ACK, address, payload,
                       FALSE, REDUNDANT_K_PACKETS)
         IN leave_fanout([s |-> r.s, sent |-> acc.sent \/ r.ok],
                         roster, i + 1, pkt)

RemoveLid(room, lid) ==
  IF lid \in RosterLids(room)
  THEN RemoveAt(room.players, RosterIndex(room, lid))
  ELSE room.players

handle_leave_room(s, pkt, addr) ==
  IF addr \notin DOMAIN s.addr_to_player THEN s
  ELSE LET player_id == s.addr_to_player[addr] IN
    IF player_id \notin DOMAIN s.seq THEN s
    ELSE LET room_id == s.players[player_id].room_id IN
      IF room_id \notin DOMAIN s.rooms THEN s
      ELSE LET room == s.rooms[room_id]
               local_id == s.players[player_id].player_local_id
               roster == RemoveLid(room, local_id)
               s1 == [s EXCEPT
                        !.rooms[room_id].players = roster,
                        !.players[player_id].room_id = 0,
                        !.players[player_id].player_local_id = 0]
               acc == leave_fanout([s |-> s1, sent |-> FALSE], roster, 1, pkt)
           IN IF acc.sent THEN [acc.s EXCEPT !.pkt_id = @ + 1] ELSE acc.s

\* update_cell without the test of room.grid[cell_idx]: the last writer wins
update_cell_overwrite(room, event_type, player_local_id, cell_idx) ==
  IF ~(0 <= cell_idx /\ cell_idx < TOTAL_CELLS) THEN room
  ELSE [room EXCEPT
          !.grid = IF event_type = CELL_ACQUISITION
                   THEN [@ EXCEPT ![cell_idx + 1] = player_local_id]
                   ELSE @,
          !.snapshot_id = @ + 1,
          !.updates = LastK(Append(@, <<event_type, player_local_id,
                                        cell_idx>>), LAST_K_UPDATES)]

\* update_cell with the bookkeeping ahead of the test of room.grid[cell_idx]
update_cell_counting(room, event_type, player_local_id, cell_idx) ==
  IF ~(0 <= cell_idx /\ cell_idx < TOTAL_CELLS) THEN room
  ELSE [room EXCEPT
          !.grid = IF event_type = CELL_ACQUISITION /\ @[cell_idx + 1] = 0
                   THEN [@ EXCEPT ![cell_idx + 1] = player_local_id]
                   ELSE @,
          !.snapshot_id = @ + 1,
          !.updates = LastK(Append(@, <<event_type, player_local_id,
                                        cell_idx>>), LAST_K_UPDATES)]

update_cell(room, event_type, player_local_id, cell_idx) ==
  IF ~(0 <= cell_idx /\ cell_idx < TOTAL_CELLS) THEN room
  ELSE IF event_type = CELL_ACQUISITION /\ room.grid[cell_idx + 1] # 0
  THEN room
  ELSE [room EXCEPT
          !.grid = IF event_type = CELL_ACQUISITION
                   THEN [@ EXCEPT ![cell_idx + 1] = player_local_id]
                   ELSE @,
          !.snapshot_id = @ + 1,
          !.updates = LastK(Append(@, <<event_type, player_local_id,
                                        cell_idx>>), LAST_K_UPDATES)]

RECURSIVE event_fanout(_,_,_,_)
event_fanout(acc, roster, i, payload) ==
  IF i > Len(roster) THEN acc
  ELSE LET player == roster[i] IN
    IF player.global_id \notin DOMAIN acc.s.players
    THEN event_fanout(acc, roster, i + 1, payload)
    ELSE LET address == acc.s.players[player.global_id].address
             r == Send(acc.s, MESSAGE_TYPES.EVENT, address, payload,
                       FALSE, REDUNDANT_K_PACKETS)
         IN event_fanout([s |-> r.s, sent |-> acc.sent \/ r.ok],
                         roster, i + 1, payload)

\* parse_event_payload: (event_type, room_id, player_local_id, cell_idx)
\* handle_event without the test that the room is full
handle_event_any_room(s, pkt, addr) ==
  IF addr \notin DOMAIN s.addr_to_player THEN s
  ELSE IF Len(pkt.payload) < 4 THEN s
  ELSE LET room_id == pkt.payload[2]
           player_local_id == pkt.payload[3]
       IN
    IF room_id \notin DOMAIN s.rooms THEN s
    ELSE LET room == s.rooms[room_id] IN
      IF player_local_id \notin RosterLids(room) THEN s
      ELSE LET s1 == [s EXCEPT !.rooms[room_id] =
                        update_cell(room, pkt.payload[1], player_local_id,
                                    pkt.payload[4])]
               acc == event_fanout([s |-> s1, sent |-> FALSE],
                                   room.players, 1, pkt.payload)
           IN IF acc.sent THEN [acc.s EXCEPT !.pkt_id = @ + 1] ELSE acc.s

handle_event(s, pkt, addr) ==
  IF addr \notin DOMAIN s.addr_to_player THEN s
  ELSE IF Len(pkt.payload) < 4 THEN s
  ELSE LET player_id == s.addr_to_player[addr]
           event_type == pkt.payload[1]
           room_id == pkt.payload[2]
           player_local_id == pkt.payload[3]
           cell_idx == pkt.payload[4]
       IN
    IF room_id \notin DOMAIN s.rooms THEN s
    ELSE LET room == s.rooms[room_id] IN
      IF player_local_id \notin RosterLids(room) THEN s
      ELSE IF Len(room.players) < REQUIRED_ROOM_PLAYERS
      THEN IF player_id \notin DOMAIN s.players THEN s
           ELSE Send(s, MESSAGE_TYPES.EVENT, s.players[player_id].address,
                     build_event_payload(event_type, room_id, 0, cell_idx),
                     FALSE, REDUNDANT_K_PACKETS).s
      ELSE LET s1 == [s EXCEPT !.rooms[room_id] =
                        update_cell(room, event_type, player_local_id,
                                    cell_idx)]
               acc == event_fanout([s |-> s1, sent |-> FALSE],
                                   room.players, 1, pkt.payload)
           IN IF acc.sent THEN [acc.s EXCEPT !.pkt_id = @ + 1] ELSE acc.s

\* catch-up after an accepted ACK for a packet sent at stored_snapshot_id
updates_catch_up(s, addr, room, stored_snapshot_id) ==
  LET required_updates_count == room.snapshot_id - stored_snapshot_id IN
  IF required_updates_count > LAST_K_UPDATES
  THEN Send(s, MESSAGE_TYPES.SNAPSHOT, addr,
            build_snapshot_payload(room.grid), TRUE, 1).s
  ELSE IF required_updates_count > 0
  THEN Send(s, MESSAGE_TYPES.UPDATES, addr,
            build_updates_payload(LastK(room.updates,
                                        required_updates_count)), TRUE, 1).s
  ELSE s

handle_updates_ack(s, pkt, addr) ==
  IF addr \notin DOMAIN s.addr_to_player THEN s
  ELSE LET player_id == s.addr_to_player[addr] IN
    IF \/ player_id \notin DOMAIN s.players
       \/ s.players[player_id].room_id \notin DOMAIN s.rooms
    THEN s
    ELSE LET seq_num == parse_updates_ack_payload(pkt.payload)
             hit == ack_packet_index(s, seq_num, player_id)
         IN
      IF seq_num = 0 THEN s
      ELSE IF hit = {} THEN s
      ELSE LET i == CHOOSE j \in hit : TRUE
               stored == s.unacked_packets[i].packet
               s1 == [s EXCEPT !.unacked_packets = RemoveAt(@, i)]
               room == s.rooms[s.players[player_id].room_id]
           IN updates_catch_up(s1, addr, room, stored.snapshot_id)

\* the key of the entry that a SNAPSHOT_ACK clears: seq = pkt['seq']
snapshot_ack_key(pkt) == pkt.seq

handle_snapshot_ack(s, pkt, addr) ==
  IF addr \notin DOMAIN s.addr_to_player THEN s
  ELSE LET player_id == s.addr_to_player[addr] IN
    IF \/ player_id \notin DOMAIN s.players
       \/ s.players[player_id].room_id \notin DOMAIN s.rooms
    THEN s
    ELSE LET named == parse_snapshot_ack_payload(pkt.payload)
             hit == ack_packet_index(s, snapshot_ack_key(pkt), player_id)
         IN
      IF named = 0 THEN s
      ELSE IF hit = {} THEN s
      ELSE LET i == CHOOSE j \in hit : TRUE
               stored == s.unacked_packets[i].packet
               s1 == [s EXCEPT !.unacked_packets = RemoveAt(@, i)]
               room == s.rooms[s.players[player_id].room_id]
           IN IF stored.snapshot_id < room.snapshot_id
              THEN Send(s1, MESSAGE_TYPES.SNAPSHOT, addr,
                        build_snapshot_payload(room.grid), TRUE, 1).s
              ELSE s1

cleanup_player(s, player_id) ==
  IF player_id \notin DOMAIN s.players THEN s
  ELSE LET player == s.players[player_id]
           room_id == player.room_id
           rooms1 == IF room_id # 0 /\ room_id \in DOMAIN s.rooms
                     THEN [s.rooms EXCEPT ![room_id].players =
                             RemoveLid(s.rooms[room_id],
                                       player.player_local_id)]
                     ELSE s.rooms
       IN [s EXCEPT !.rooms = rooms1,
                    !.addr_to_player = Drop(@, player.address),
                    !.players = Drop(@, player_id)]

handle_disconnect(s, pkt, addr) ==
  IF addr \in DOMAIN s.addr_to_player
  THEN cleanup_player(s, s.addr_to_player[addr])
  ELSE s

\* ------------------------------------------------------- periodic tasks
\* acc.raised: self.players[player.global_id] raised KeyError, which ends
\* the task (run() catches it)
RECURSIVE broadcast_room(_,_,_,_)
broadcast_room(acc, roster, i, payload) ==
  IF acc.raised \/ i > Len(roster) THEN acc
  ELSE LET player == roster[i] IN
    IF player.global_id \notin DOMAIN acc.s.seq
    THEN broadcast_room(acc, roster, i + 1, payload)
    ELSE IF player.global_id \notin DOMAIN acc.s.players
    THEN [acc EXCEPT !.raised = TRUE]
    ELSE LET r == Send(acc.s, MESSAGE_TYPES.UPDATES,
                       acc.s.players[player.global_id].address,
                       payload, TRUE, 1)
         IN broadcast_room([s |-> r.s, sent |-> acc.sent \/ r.ok,
                            raised |-> FALSE], roster, i + 1, payload)

RECURSIVE broadcast_rooms(_,_)
broadcast_rooms(acc, room_id) ==
  IF acc.raised \/ room_id >= acc.s.next_room_id + 1 THEN acc
  ELSE IF room_id \notin DOMAIN acc.s.rooms
  THEN broadcast_rooms(acc, room_id + 1)
  ELSE LET room == acc.s.rooms[room_id]
           payload == build_updates_payload(
                        LastK(room.updates, REDUNDANT_K_UPDATES))
       IN IF Len(room.players) < REQUIRED_ROOM_PLAYERS
          THEN broadcast_rooms(acc, room_id + 1)
          ELSE broadcast_rooms(broadcast_room(acc, room.players, 1, payload),
                               room_id + 1)

send_updates_to_all(s) ==
  LET acc == broadcast_rooms([s |-> s, sent |-> FALSE, raised |-> FALSE], 1)
  IN IF ~acc.raised /\ acc.sent
     THEN [acc.s EXCEPT !.pkt_id = @ + 1]
     ELSE acc.s

\* an entry is due when now - last_sent > RETRANS_TIMEOUT: every entry that
\* an earlier pass has seen (the task runs every 0.2 s, the timeout is
\* 0.1 s), and of the entries created since, the oldest `cut` positions
RetransmitDue(entry, i, cut) == ~entry.fresh \/ i <= cut

\* the cap tested with > in place of >=
AbandonAt_late(entry) == entry.sent_count > MAX_TRANSMISSION_RETRIES

AbandonAt(entry) == entry.sent_count >= MAX_TRANSMISSION_RETRIES

\* acc.table: the entries kept so far; acc.raised: self.players[player_id]
\* raised KeyError, the entries from i on are left as they are
RECURSIVE retransmit_loop(_,_,_,_)
retransmit_loop(acc, entries, i, cut) ==
  IF i > Len(entries) THEN acc
  ELSE LET entry == entries[i] IN
    IF AbandonAt(entry)
    THEN retransmit_loop(acc, entries, i + 1, cut)
    ELSE IF ~RetransmitDue(entry, i, cut)
    THEN retransmit_loop([acc EXCEPT !.table = Append(@, entry)],
                         entries, i + 1, cut)
    ELSE IF entry.player_id \notin DOMAIN acc.players
    THEN [acc EXCEPT !.table = @ \o SubSeq(entries, i, Len(entries)),
                     !.raised = TRUE]
    ELSE retransmit_loop(
           [acc EXCEPT
              !.table = Append(@, [entry EXCEPT !.sent_count = @ + 1]),
              !.out = Append(@, [to |-> acc.players[entry.player_id].address,
                                 pkt |-> entry.packet])],
           entries, i + 1, cut)

retransmit(s, cut) ==
  LET acc == retransmit_loop([table |-> <<>>, out |-> <<>>, raised |-> FALSE,
                              players |-> s.players],
                             s.unacked_packets, 1, cut)
  IN [s EXCEPT
        !.unacked_packets = [i \in 1..Len(acc.table) |->
                               [acc.table[i] EXCEPT !.fresh = FALSE]],
        !.out = @ \o acc.out]

\* ------------------------------------------------------------- client
\* None is 0: no player id, room id or local id is 0.  self.players is the
\* function local id -> (player id, colour); pending_cells is the sequence
\* of its keys, oldest request first; out is what the client put on the
\* wire for the server.
ClientBlank ==
  [player_id |-> 0, players |-> EmptyFcn, seq |-> 1, pkt_id |-> 1,
   room_id |-> 0, local_id |-> 0, grid |-> [i \in 1..(MaxCell + 1) |-> 0],
   unacked_packets |-> <<>>, snapshot_id |-> 0, pending_cells |-> <<>>,
   owned_cells |-> {}, out |-> <<>>]

ClientUnacked(seq_num, p, msg_type) ==
  [seq |-> seq_num, packet |-> p, msg_type |-> msg_type, sent_count |-> 0,
   fresh |-> TRUE]

client_send(c, msg_type, payload, ack, repeat) ==
  LET rep == IF ack THEN 1 ELSE repeat IN
  IF rep < 1 THEN c
  ELSE LET p == build_packet(msg_type, c.pkt_id, c.seq, payload,
                             c.snapshot_id)[1]
       IN [c EXCEPT
             !.out = @ \o Repeat(p, rep),
             !.unacked_packets =
                IF ack THEN Append(@, ClientUnacked(c.seq, p, msg_type))
                ELSE @,
             !.seq = @ + 1,
             !.pkt_id = @ + 1]

client_ack_index(c, seq_num) ==
  {i \in 1..Len(c.unacked_packets) : c.unacked_packets[i].seq = seq_num}

\* ack_packet of a sequence number that the table holds
client_ack_packet(c, seq_num) ==
  [c EXCEPT !.unacked_packets =
     RemoveAt(@, CHOOSE i \in client_ack_index(c, seq_num) : TRUE)]

send_init(c) == client_send(c, MESSAGE_TYPES.INIT, <<>>, TRUE, 1)

\* the name of the room is not modelled
send_create_room(c) == client_send(c, MESSAGE_TYPES.CREATE_ROOM, <<>>, TRUE, 1)

send_join_room(c, room_id) ==
  IF room_id < 1 THEN c
  ELSE client_send(c, MESSAGE_TYPES.JOIN_ROOM,
                   build_join_room_payload(room_id), TRUE, 1)

\* room_id is 0, never None, once the client has been constructed
send_leave_room(c) == client_send(c, MESSAGE_TYPES.LEAVE_ROOM, <<>>, TRUE, 1)

Without(q, x) == SelectSeq(q, LAMBDA y : y # x)

request_cell(c, cell_idx) ==
  IF \/ \E i \in 1..Len(c.pending_cells) : c.pending_cells[i] = cell_idx
     \/ c.grid[cell_idx + 1] # 0
  THEN c
  ELSE client_send([c EXCEPT !.pending_cells = Append(@, cell_idx)],
                   MESSAGE_TYPES.EVENT,
                   build_event_payload(CELL_ACQUISITION, c.room_id,
                                       c.local_id, cell_idx),
                   FALSE, 1)

send_updates_ack(c, seq_num) ==
  IF seq_num < 1 THEN c
  ELSE client_send(c, MESSAGE_TYPES.UPDATES_ACK,
                   build_updates_ack_payload(seq_num), FALSE, 1)

send_snapshot_ack(c, seq_num) ==
  IF seq_num < 1 THEN c
  ELSE client_send(c, MESSAGE_TYPES.SNAPSHOT_ACK,
                   build_snapshot_ack_payload(seq_num), FALSE, 1)

\* the entries of a roster from payload[offset + 1] on, as the dict that
\* parse_join_ack_payload and parse_leave_ack_payload build: a later entry
\* of a local id replaces an earlier one
parse_roster(payload, offset, count) ==
  LET lid_at(i) == payload[offset + 3 * (i - 1) + 2]
      last(l) == CHOOSE i \in 1..count :
                   /\ lid_at(i) = l
                   /\ \A j \in 1..count : lid_at(j) = l => j <= i
  IN [l \in {lid_at(i) : i \in 1..count} |->
        <<payload[offset + 3 * (last(l) - 1) + 1],
          payload[offset + 3 * (last(l) - 1) + 3]>>]

handle_init_ack(c, payload) ==
  IF Len(payload) < 2 THEN c
  ELSE IF client_ack_index(c, payload[1]) = {} THEN c
  ELSE [client_ack_packet(c, payload[1]) EXCEPT !.player_id = payload[2]]

handle_create_ack(c, payload) ==
  IF Len(payload) < 2 THEN c
  ELSE IF client_ack_index(c, payload[1]) = {} THEN c
  ELSE send_join_room([client_ack_packet(c, payload[1])
                         EXCEPT !.room_id = payload[2]],
                      payload[2])

\* None is <<>>.  The loop over the entries unpacks each entry into
\* player_id, player_local_id, r, g, b: the name player_local_id that the
\* header was unpacked into is bound again by every entry, and the value
\* returned is the one of the last entry (the header's when count is 0)
parse_join_ack_payload(payload) ==
  IF Len(payload) < 4 THEN <<>>
  ELSE IF Len(payload) < 4 + 3 * payload[4] THEN <<>>
  ELSE LET players_count == payload[4]
           player_local_id ==
             IF players_count = 0 THEN payload[3]
             ELSE payload[4 + 3 * (players_count - 1) + 2]
       IN <<payload[1], payload[2], player_local_id,
            parse_roster(payload, 4, players_count)>>

handle_join_ack(c, payload) ==
  LET res == parse_join_ack_payload(payload) IN
  IF res = <<>> THEN c
  ELSE LET c1 == [c EXCEPT !.players = res[4]]
       IN IF client_ack_index(c1, res[1]) = {} THEN c1
          ELSE [client_ack_packet(c1, res[1])
                  EXCEPT !.room_id = res[2], !.local_id = res[3]]

handle_leave_ack(c, payload) ==
  IF Len(payload) < 2 THEN c
  ELSE IF Len(payload) < 2 + 3 * payload[2] THEN c
  ELSE LET c1 == [c EXCEPT !.players = parse_roster(payload, 2, payload[2])]
       IN IF client_ack_index(c1, payload[1]) = {} THEN c1
          ELSE [client_ack_packet(c1, payload[1])
                  EXCEPT !.room_id = 0, !.players = EmptyFcn,
                         !.local_id = 0]

client_update_cell(c, event_type, player_local_id, cell_idx) ==
  IF cell_idx < 0 \/ cell_idx >= TOTAL_CELLS THEN c
  ELSE IF event_type # CELL_ACQUISITION THEN c
  ELSE LET c1 == [c EXCEPT !.pending_cells = Without(@, cell_idx)] IN
    IF player_local_id = 0 THEN c1
    ELSE [c1 EXCEPT
            !.owned_cells = IF player_local_id = c.local_id
                            THEN @ \cup {cell_idx} ELSE @,
            !.grid[cell_idx + 1] = player_local_id]

client_handle_event(c, pkt) ==
  IF Len(pkt.payload) < 4 THEN c
  ELSE [client_update_cell(c, pkt.payload[1], pkt.payload[3], pkt.payload[4])
          EXCEPT !.snapshot_id = pkt.snapshot_id]

\* the updates of an UPDATES payload, None (a payload cut short) as <<>>:
\* handle_updates takes the same branch for None and for an empty deque
parse_updates_payload(payload) ==
  IF Len(payload) < 1 THEN <<>>
  ELSE IF Len(payload) < 1 + 3 * payload[1] THEN <<>>
  ELSE [i \in 1..payload[1] |->
          <<payload[3 * i - 1], payload[3 * i], payload[3 * i + 1]>>]

RECURSIVE apply_updates(_,_)
apply_updates(c, updates) ==
  IF updates = <<>> THEN c
  ELSE apply_updates(client_update_cell(c, updates[1][1], updates[1][2],
                                        updates[1][3]),
                     Tail(updates))

\* handle_updates without the test that the packet is ahead of the client
handle_updates_unordered(c, pkt) ==
  LET updates == parse_updates_payload(pkt.payload) IN
  IF updates = <<>> THEN c
  ELSE LET required_updates_count == pkt.snapshot_id - c.snapshot_id
           c1 == IF required_updates_count <= Len(updates)
                 THEN [apply_updates(c, LastK(updates,
                                              required_updates_count))
                         EXCEPT !.snapshot_id = pkt.snapshot_id]
                 ELSE c
       IN send_updates_ack(c1, seq_keys(pkt)[1])

handle_updates(c, pkt) ==
  LET updates == parse_updates_payload(pkt.payload) IN
  IF updates = <<>> THEN c
  ELSE LET required_updates_count == pkt.snapshot_id - c.snapshot_id
           c1 == IF /\ required_updates_count > 0
                    /\ required_updates_count <= Len(updates)
                 THEN [apply_updates(c, LastK(updates,
                                              required_updates_count))
                         EXCEPT !.snapshot_id = pkt.snapshot_id]
                 ELSE c
       IN send_updates_ack(c1, seq_keys(pkt)[1])

handle_snapshot(c, pkt) ==
  IF Len(pkt.payload) < MaxCell + 1 THEN c
  ELSE send_snapshot_ack([c EXCEPT !.grid = pkt.payload,
                                   !.snapshot_id = pkt.snapshot_id],
                         seq_keys(pkt)[1])

\* handle_recv of the client
client_handle_recv(c, pkt) ==
  CASE pkt.msg_type = MESSAGE_TYPES.INIT_ACK -> handle_init_ack(c, pkt.payload)
    [] pkt.msg_type = MESSAGE_TYPES.CREATE_ACK ->
         handle_create_ack(c, pkt.payload)
    [] pkt.msg_type = MESSAGE_TYPES.JOIN_ACK -> handle_join_ack(c, pkt.payload)
    [] pkt.msg_type = MESSAGE_TYPES.LEAVE_ACK ->
         handle_leave_ack(c, pkt.payload)
    [] pkt.msg_type = MESSAGE_TYPES.EVENT -> client_handle_event(c, pkt)
    [] pkt.msg_type = MESSAGE_TYPES.UPDATES -> handle_updates(c, pkt)
    [] pkt.msg_type = MESSAGE_TYPES.SNAPSHOT -> handle_snapshot(c, pkt)
    [] OTHER -> c

RECURSIVE client_retransmit_loop(_,_,_,_)
client_retransmit_loop(acc, entries, i, cut) ==
  IF i > Len(entries) THEN acc
  ELSE LET entry == entries[i] IN
    IF AbandonAt(entry)
    THEN client_retransmit_loop(acc, entries, i + 1, cut)
    ELSE IF ~RetransmitDue(entry, i, cut)
    THEN client_retransmit_loop([acc EXCEPT !.table = Append(@, entry)],
                                entries, i + 1, cut)
    ELSE client_retransmit_loop(
           [acc EXCEPT
              !.table = Append(@, [entry EXCEPT !.sent_count = @ + 1]),
              !.out = Append(@, entry.packet)],
           entries, i + 1, cut)

client_retransmit(c, cut) ==
  LET acc == client_retransmit_loop([table |-> <<>>, out |-> <<>>],
                                    c.unacked_packets, 1, cut)
  IN [c EXCEPT
        !.unacked_packets = [i \in 1..Len(acc.table) |->
                               [acc.table[i] EXCEPT !.fresh = FALSE]],
        !.out = @ \o acc.out]

\* the requests older than RETRANS_TIMEOUT are the `cut` oldest of
\* pending_cells; each is deleted and requested again
RECURSIVE check_pending_loop(_,_)
check_pending_loop(c, due) ==
  IF due = <<>> THEN c
  ELSE check_pending_loop(
         request_cell([c EXCEPT !.pending_cells = Without(@, due[1])],
                      due[1]),
         Tail(due))

check_pending_cells(c, cut) ==
  check_pending_loop(c, SubSeq(c.pending_cells, 1, cut))

\* ------------------------------------------------- server specification
\* The server alone: every datagram a peer can put on the wire is an input.
InSeqs == 1..MaxInSeq

Inbound(msg_type, seq_num, snapshot_id, payload) ==
  Packet(msg_type, seq_num, seq_num, payload, snapshot_id)

\* ESPServerProtocol.__init__
Constructed ==
  [next_player_id |-> 1, players |-> EmptyFcn, addr_to_player |-> EmptyFcn,
   next_room_id |-> 1, rooms |-> EmptyFcn, pkt_id |-> 1, seq |-> EmptyFcn,
   unacked_packets |-> <<>>, out |-> <<>>]

Quiet(s) == [s EXCEPT !.out = <<>>]

\* handle_recv of the server; color is the draw of handle_join_room
handle_recv(s, pkt, addr, color) ==
  CASE pkt.msg_type = MESSAGE_TYPES.INIT -> handle_init(s, pkt, addr)
    [] pkt.msg_type = MESSAGE_TYPES.CREATE_ROOM ->
         handle_create_room(s, pkt, addr)
    [] pkt.msg_type = MESSAGE_TYPES.JOIN_ROOM ->
         handle_join_room(s, pkt, addr, color)
    [] pkt.msg_type = MESSAGE_TYPES.LEAVE_ROOM ->
         handle_leave_room(s, pkt, addr)
    [] pkt.msg_type = MESSAGE_TYPES.EVENT -> handle_event(s, pkt, addr)
    [] pkt.msg_type = MESSAGE_TYPES.UPDATES_ACK ->
         handle_updates_ack(s, pkt, addr)
    [] pkt.msg_type = MESSAGE_TYPES.SNAPSHOT_ACK ->
         handle_snapshot_ack(s, pkt, addr)
    [] pkt.msg_type = MESSAGE_TYPES.DISCONNECT ->
         handle_disconnect(s, pkt, addr)
    [] OTHER -> s

\* ESPClientProtocol.__init__ with send_init = True
ClientConstructed == send_init(ClientBlank)

Members == 1..REQUIRED_ROOM_PLAYERS

SystemConstructed ==
  [sv |-> Constructed, clients |-> [a \in Members |-> ClientConstructed]]

\* the packets of the server reach their clients, in the order sent
RECURSIVE DeliverAll(_,_)
DeliverAll(cs, outs) ==
  IF outs = <<>> THEN cs
  ELSE DeliverAll(
         IF outs[1].to \in DOMAIN cs
         THEN [cs EXCEPT ![outs[1].to] = client_handle_recv(@, outs[1].pkt)]
         ELSE cs,
         Tail(outs))

\* the client at address a and the server exchange datagrams, none lost,
\* until the client has nothing left to send
RECURSIVE Pump(_,_,_)
Pump(sys, a, color) ==
  IF sys.clients[a].out = <<>> THEN sys
  ELSE LET s == handle_recv(sys.sv, Head(sys.clients[a].out), a, color)
           cs == [sys.clients EXCEPT ![a].out = Tail(@)]
       IN Pump([sv |-> Quiet(s), clients |-> DeliverAll(cs, s.out)],
               a, color)

\* REQUIRED_ROOM_PLAYERS clients, at the addresses 1..REQUIRED_ROOM_PLAYERS,
\* have had their INIT answered, the first has created a room, which makes
\* it join, and the others have joined in order (scenario (b) of the
\* specification)
RECURSIVE AfterInits(_)
AfterInits(n) ==
  IF n = 0 THEN SystemConstructed ELSE Pump(AfterInits(n - 1), n, n)

AfterCreate ==
  Pump([AfterInits(REQUIRED_ROOM_PLAYERS) EXCEPT
          !.clients[1] = send_create_room(@)], 1, 1)

RECURSIVE AfterJoins(_)
AfterJoins(n) ==
  IF n = 1 THEN AfterCreate
  ELSE Pump([AfterJoins(n - 1) EXCEPT
               !.clients[n] =
                  send_join_room(@, AfterJoins(n - 1).clients[1].room_id)],
            n, n)

Formed == AfterJoins(REQUIRED_ROOM_PLAYERS)

RoomFormed == Formed.sv

\* the client of player 1 once the room is formed
ClientJoined == Formed.clients[1]

\* the caps of a run that starts in the server state base
Bounded(base, s) ==
  /\ s.next_player_id <= base.next_player_id + MaxNewPlayers
  /\ DOMAIN s.rooms \subseteq 1..MaxRooms
  /\ s.pkt_id <= base.pkt_id + MaxPkts
  /\ \A p \in DOMAIN s.seq :
       s.seq[p] <= (IF p \in DOMAIN base.seq THEN base.seq[p] ELSE 1)
                     + MaxSends
  /\ Len(s.unacked_packets) <= MaxUnacked
  /\ \A r \in DOMAIN s.rooms : s.rooms[r].snapshot_id <= MaxSnap

Step(base, s) == Bounded(base, s) /\ Commit(s)

RecvInit(base, addr, sq) ==
  Step(base, handle_init(SV, Inbound(MESSAGE_TYPES.INIT, sq, 0, <<>>), addr))

RecvCreateRoom(base, addr, sq) ==
  Step(base, handle_create_room(
               SV, Inbound(MESSAGE_TYPES.CREATE_ROOM, sq, 0, <<>>), addr))

RecvJoinRoom(base, addr, sq, room_id, color) ==
  /\ room_id \in DOMAIN rooms => color \notin RosterColors(rooms[room_id])
  /\ Step(base, handle_join_room(
                  SV, Inbound(MESSAGE_TYPES.JOIN_ROOM, sq, 0,
                              build_join_room_payload(room_id)), addr, color))

RecvLeaveRoom(base, addr, sq) ==
  Step(base, handle_leave_room(
               SV, Inbound(MESSAGE_TYPES.LEAVE_ROOM, sq, 0, <<>>), addr))

RecvEvent(base, addr, sq, event_type, room_id, local_id, cell_idx) ==
  Step(base, handle_event(
               SV, Inbound(MESSAGE_TYPES.EVENT, sq, 0,
                           build_event_payload(event_type, room_id, local_id,
                                               cell_idx)), addr))

RecvUpdatesAck(base, addr, sq, snap, acked) ==
  Step(base, handle_updates_ack(
               SV, Inbound(MESSAGE_TYPES.UPDATES_ACK, sq, snap,
                           build_updates_ack_payload(acked)), addr))

RecvSnapshotAck(base, addr, sq, snap, acked) ==
  Step(base, handle_snapshot_ack(
               SV, Inbound(MESSAGE_TYPES.SNAPSHOT_ACK, sq, snap,
                           build_snapshot_ack_payload(acked)), addr))

RecvDisconnect(base, addr, sq) ==
  Step(base, handle_disconnect(
               SV, Inbound(MESSAGE_TYPES.DISCONNECT, sq, 0, <<>>), addr))

TickBroadcast(base) == Step(base, send_updates_to_all(SV))

TickRetransmit(base, cut) == Step(base, retransmit(SV, cut))

\* the inputs the environment enumerates; values outside these sets take
\* the same early return as the absent ones that are inside
CellInputs == Cells \cup {TOTAL_CELLS}
RoomInputs == 1..(MaxRooms + 1)
\* the local ids that events name: those of the first and of the last member
LocalIdInputs == {1, REQUIRED_ROOM_PLAYERS}
\* the event payloads (event_type, room_id, player_local_id, cell_idx):
\* an acquisition of a cell of the grid by either local id, one of a cell
\* beyond the grid, one in a room that may not exist, and one event of
\* another type
EventInputs ==
  {<<CELL_ACQUISITION, 1, l, c>> : l \in LocalIdInputs, c \in Cells}
    \cup {<<CELL_ACQUISITION, 1, 1, TOTAL_CELLS>>,
          <<CELL_ACQUISITION, MaxRooms + 1, 1, 0>>,
          <<1, 1, 1, 0>>}
\* the addresses that send lifecycle messages: the last NumLeavers members
\* of the room and the strangers; the addresses that send ACKs: these and
\* the first NumAckers members
Movers == {a \in Addrs : a > REQUIRED_ROOM_PLAYERS - NumLeavers}
Ackers == Movers \cup (1..NumAckers)
SnapInputs == 0..MaxSnap
UnackedSeqs == {unacked_packets[i].seq : i \in 1..Len(unacked_packets)}
\* a sequence number that no entry of the table bears
AbsentSeq ==
  CHOOSE n \in 1..(Cardinality(UnackedSeqs) + 1) : n \notin UnackedSeqs
AckSeqs == {0, AbsentSeq} \cup UnackedSeqs
\* the sequence numbers that the ACKs of the peer at addr name: those of the
\* entries of its player, one that no entry bears, and 0
AckSeqsOf(addr) ==
  {0, AbsentSeq} \cup
    {unacked_packets[i].seq : i \in
       {j \in 1..Len(unacked_packets) :
          /\ addr \in DOMAIN addr_to_player
          /\ unacked_packets[j].player_id = addr_to_player[addr]}}
\* the snapshot ids that the headers of the ACKs report
HeaderSnaps == {0, MaxSnap}
Cuts ==
  {0} \cup {i \in 1..Len(unacked_packets) : unacked_packets[i].fresh}

\* the draws of the colour generator: the MaxDraws lowest colours that no
\* member of the room holds
ColorDraws(room_id) ==
  IF room_id \notin DOMAIN rooms THEN {1}
  ELSE LET free == Colors \ RosterColors(rooms[room_id]) IN
       {c \in free : Cardinality({d \in free : d < c}) < MaxDraws}

Init_(base) == \E addr \in Movers, sq \in InSeqs : RecvInit(base, addr, sq)

CreateRoom(base) ==
  \E addr \in Movers, sq \in InSeqs : RecvCreateRoom(base, addr, sq)

JoinRoom(base) ==
  \E addr \in Movers, sq \in InSeqs, room_id \in RoomInputs :
    \E color \in ColorDraws(room_id) :
      RecvJoinRoom(base, addr, sq, room_id, color)

LeaveRoom(base) ==
  \E addr \in Movers, sq \in InSeqs : RecvLeaveRoom(base, addr, sq)

Event(base) ==
  \E addr \in Ackers, sq \in InSeqs, ev \in EventInputs :
    RecvEvent(base, addr, sq, ev[1], ev[2], ev[3], ev[4])

UpdatesAck(base) ==
  \E addr \in Ackers, sq \in InSeqs, snap \in HeaderSnaps :
    \E acked \in AckSeqsOf(addr) :
      RecvUpdatesAck(base, addr, sq, snap, acked)

SnapshotAck(base) ==
  \E addr \in Ackers :
    \E sq \in AckSeqsOf(addr) \ {0}, acked \in AckSeqsOf(addr) :
      RecvSnapshotAck(base, addr, sq, 0, acked)

Disconnect(base) ==
  \E addr \in Movers, sq \in InSeqs : RecvDisconnect(base, addr, sq)

Broadcast(base) == TickBroadcast(base)

Retransmit(base) == \E cut \in Cuts : TickRetransmit(base, cut)

\* a room in play: the run starts with the room formed
RoomInit == Commit_Init(RoomFormed)

RoomNext ==
  \/ Init_(RoomFormed)
  \/ JoinRoom(RoomFormed)
  \/ LeaveRoom(RoomFormed)
  \/ Event(RoomFormed)
  \/ UpdatesAck(RoomFormed)
  \/ SnapshotAck(RoomFormed)
  \/ Disconnect(RoomFormed)
  \/ Broadcast(RoomFormed)
  \/ Retransmit(RoomFormed)

RoomSpec == RoomInit /\ [][RoomNext]_vars

\* the reliable channel of a room in play: the broadcast task fills the
\* unacknowledged table, ACKs and the retransmit task empty it, members
\* leave and disconnect; the main loop of run() calls the retransmit task
\* every 0.2 s, so the task is never starved
ReliableNext ==
  \/ LeaveRoom(RoomFormed)
  \/ UpdatesAck(RoomFormed)
  \/ Disconnect(RoomFormed)
  \/ Broadcast(RoomFormed)
  \/ Retransmit(RoomFormed)

ReliableSpec ==
  RoomInit /\ [][ReliableNext]_vars /\ WF_vars(Retransmit(RoomFormed))

\* ------------------------------------------------- system specification
\* The server, the clients of the first NumClients members of the room and
\* the datagrams between them.  The network reorders; it delivers every
\* datagram to these clients and to the server once, and loses those for
\* the other members, who send nothing.
Online == 1..NumClients

Datagram(up, peer, pkt) == [up |-> up, peer |-> peer, pkt |-> pkt]

Downlink(outs) ==
  {Datagram(FALSE, outs[i].to, outs[i].pkt) :
     i \in {j \in 1..Len(outs) : outs[j].to \in Online}}

Uplink(a, c) == {Datagram(TRUE, a, c.out[i]) : i \in 1..Len(c.out)}

SystemBounded(base, s, cs, w) ==
  /\ Bounded(base.sv, s)
  /\ \A a \in Online : cs[a].seq <= base.clients[a].seq + MaxClientSends
  /\ Cardinality(w) <= MaxWire

SystemStep(s, cs, w) ==
  /\ SystemBounded(Formed, s, cs, w)
  /\ next_player_id' = s.next_player_id
  /\ players' = s.players
  /\ addr_to_player' = s.addr_to_player
  /\ next_room_id' = s.next_room_id
  /\ rooms' = s.rooms
  /\ pkt_id' = s.pkt_id
  /\ seq' = s.seq
  /\ unacked_packets' = s.unacked_packets
  /\ out' = s.out
  /\ clients' = [a \in DOMAIN cs |-> [cs[a] EXCEPT !.out = <<>>]]
  /\ wire' = w
  /\ UNCHANGED fragvars

ServerStep(s, taken) == SystemStep(s, clients, (wire \ taken) \cup Downlink(s.out))

ClientStep(a, c, taken) ==
  SystemStep(SV, [clients EXCEPT ![a] = c], (wire \ taken) \cup Uplink(a, c))

JoinColors(pkt) ==
  IF pkt.msg_type = MESSAGE_TYPES.JOIN_ROOM
  THEN ColorDraws(parse_join_room_payload(pkt.payload))
  ELSE {1}

ServerReceives ==
  \E d \in wire :
    /\ d.up
    /\ \E color \in JoinColors(d.pkt) :
         ServerStep(handle_recv(SV, d.pkt, d.peer, color), {d})

ClientReceives ==
  \E d \in wire :
    /\ ~d.up
    /\ ClientStep(d.peer, client_handle_recv(clients[d.peer], d.pkt), {d})

\* test_behavior and the user interface request a cell once the client is
\* in a room
RequestCell ==
  \E a \in Online, cell_idx \in Cells :
    /\ clients[a].room_id # 0
    /\ clients[a].local_id # 0
    /\ ClientStep(a, request_cell(clients[a], cell_idx), {})

\* the user interface leaves the room: the last NumLeavers clients do, as
\* the first thing they send in the room
Leavers(base) ==
  {a \in Online : /\ a > NumClients - NumLeavers
                  /\ clients[a].seq = base.clients[a].seq}

SendLeaveRoom ==
  \E a \in Leavers(Formed) :
    /\ clients[a].room_id # 0
    /\ ClientStep(a, send_leave_room(clients[a]), {})

CheckPending ==
  \E a \in Online :
    \E cut \in 0..Len(clients[a].pending_cells) :
      ClientStep(a, check_pending_cells(clients[a], cut), {})

ClientRetransmit ==
  \E a \in Online :
    \E cut \in 0..Len(clients[a].unacked_packets) :
      ClientStep(a, client_retransmit(clients[a], cut), {})

ServerBroadcast == ServerStep(send_updates_to_all(SV), {})

ServerRetransmit == \E cut \in Cuts : ServerStep(retransmit(SV, cut), {})

SystemStart(base) ==
  /\ next_player_id = base.sv.next_player_id
  /\ players = base.sv.players
  /\ addr_to_player = base.sv.addr_to_player
  /\ next_room_id = base.sv.next_room_id
  /\ rooms = base.sv.rooms
  /\ pkt_id = base.sv.pkt_id
  /\ seq = base.sv.seq
  /\ unacked_packets = base.sv.unacked_packets
  /\ out = <<>>
  /\ clients = [a \in Online |-> base.clients[a]]
  /\ wire = {}
  /\ NoFragments

SystemInit == SystemStart(Formed)

SystemNext ==
  \/ ServerReceives
  \/ ClientReceives
  \/ RequestCell
  \/ SendLeaveRoom
  \/ CheckPending
  \/ ClientRetransmit
  \/ ServerBroadcast
  \/ ServerRetransmit

SystemSpec == SystemInit /\ [][SystemNext]_vars

\* ------------------------------------------------------------ properties
Keys(table) == {<<table[i].seq, table[i].player_id>> : i \in 1..Len(table)}

EventPkt(event_type, room_id, local_id, cell_idx) ==
  Inbound(MESSAGE_TYPES.EVENT, 1, 0,
          build_event_payload(event_type, room_id, local_id, cell_idx))

AckPkt(msg_type, header_seq, header_snapshot_id, named) ==
  Inbound(msg_type, header_seq, header_snapshot_id, <<named>>)

AckTypes == {MESSAGE_TYPES.UPDATES_ACK, MESSAGE_TYPES.SNAPSHOT_ACK}

handle_ack(s, pkt, addr) ==
  IF pkt.msg_type = MESSAGE_TYPES.UPDATES_ACK
  THEN handle_updates_ack(s, pkt, addr)
  ELSE handle_snapshot_ack(s, pkt, addr)

\* the EVENT packets of the last step that a full room was sent for an
\* acquisition of a cell of the grid (the reply of a room that is not full
\* carries local id 0)
AcquisitionBroadcasts ==
  {i \in 1..Len(out) :
     /\ out[i].pkt.msg_type = MESSAGE_TYPES.EVENT
     /\ out[i].pkt.payload[1] = CELL_ACQUISITION
     /\ out[i].pkt.payload[2] \in DOMAIN rooms
     /\ out[i].pkt.payload[3] # 0
     /\ out[i].pkt.payload[4] \in Cells}

\* C1: once a cell of a room's grid is non-zero, no step of the server
\* (EVENT, JOIN_ROOM, LEAVE_ROOM, DISCONNECT, UPDATES_ACK, SNAPSHOT_ACK,
\* the broadcast task, the retransmit task) changes it.
C1_GridMonotone ==
  [][\A r \in DOMAIN rooms : \A i \in DOMAIN rooms[r].grid :
       rooms[r].grid[i] # 0 =>
         r \in DOMAIN rooms' /\ rooms'[r].grid[i] = rooms[r].grid[i]]_vars

\* a cell is owned, and a member has since left the room
C1_OwnedCellOutlivesMember ==
  \E r \in DOMAIN rooms :
    /\ \E i \in DOMAIN rooms[r].grid :
         /\ rooms[r].grid[i] # 0
         /\ rooms[r].grid[i] \notin RosterLids(rooms[r])
    /\ out # <<>>

\* every client of the model is a member whose grid and snapshot_id are
\* those of its room
Converged ==
  \A a \in Online :
    /\ clients[a].room_id \in DOMAIN rooms
    /\ clients[a].grid = rooms[clients[a].room_id].grid
    /\ clients[a].snapshot_id = rooms[clients[a].room_id].snapshot_id

\* nothing is in flight, no reliable packet and no cell request is
\* outstanding, and every client is at the snapshot_id of its room: from
\* here on the periodic UPDATES are acknowledged and applied by no client
Settled ==
  /\ wire = {}
  /\ unacked_packets = <<>>
  /\ \A a \in Online :
       /\ clients[a].pending_cells = <<>>
       /\ clients[a].unacked_packets = <<>>
       /\ clients[a].room_id \in DOMAIN rooms
       /\ clients[a].snapshot_id = rooms[clients[a].room_id].snapshot_id

\* C2: once no acquisition is outstanding and every datagram has been
\* delivered, every member client's grid and snapshot_id are those of the
\* server's room.
C2_SettledIsConverged == Settled => Converged

\* C3: an EVENT that the server broadcasts to a full room for an acquisition
\* of cell c carries the local id of the owner of c in the grid, as it is
\* once the request has been resolved.
C3_BroadcastNamesOwner ==
  \A i \in AcquisitionBroadcasts :
    LET payload == out[i].pkt.payload IN
    payload[3] = rooms[payload[2]].grid[payload[4] + 1]

\* C4: a CELL_ACQUISITION for a cell outside the grid, or for a cell that is
\* owned, leaves grid, snapshot_id and updates of the room as they are; an
\* acquisition of an empty cell that the server applies makes the requester
\* the owner, and no acquisition of that cell after it changes the room.
C4_FirstWriterWins ==
  \A addr \in Ackers, r \in DOMAIN rooms, l \in LocalIdInputs,
     c \in CellInputs :
    LET room == rooms[r]
        first == Quiet(handle_event(SV, EventPkt(CELL_ACQUISITION, r, l, c),
                                    addr))
        applied == first.rooms[r] # room
    IN /\ (c \notin Cells \/ room.grid[c + 1] # 0) => ~applied
       /\ (/\ c \in Cells
           /\ room.grid[c + 1] = 0
           /\ addr \in DOMAIN addr_to_player
           /\ l \in RosterLids(room)
           /\ Len(room.players) >= REQUIRED_ROOM_PLAYERS) =>
            /\ first.rooms[r].grid[c + 1] = l
            /\ \A addr2 \in Ackers, l2 \in LocalIdInputs :
                 handle_event(first, EventPkt(CELL_ACQUISITION, r, l2, c),
                              addr2).rooms[r] = first.rooms[r]

\* the server has broadcast the EVENT of an acquisition of a cell that
\* another member owns; the room has seen one state-changing event
C4_SecondAcquisitionIgnored ==
  \E i \in AcquisitionBroadcasts :
    LET payload == out[i].pkt.payload
        room == rooms[payload[2]]
    IN /\ room.grid[payload[4] + 1] \notin {0, payload[3]}
       /\ room.snapshot_id = 1
       /\ Len(room.updates) = 1

\* C5: snapshot_id of a room never decreases; a step that changes the grid
\* advances it by one and appends one entry to updates, a step that leaves
\* the grid as it is leaves snapshot_id and updates as they are.
C5_SnapshotCountsGridChanges ==
  [][\A r \in DOMAIN rooms :
       /\ r \in DOMAIN rooms'
       /\ IF rooms'[r].grid = rooms[r].grid
          THEN /\ rooms'[r].snapshot_id = rooms[r].snapshot_id
               /\ rooms'[r].updates = rooms[r].updates
          ELSE /\ rooms'[r].snapshot_id = rooms[r].snapshot_id + 1
               /\ rooms'[r].updates # <<>>
               /\ rooms'[r].updates =
                    LastK(Append(rooms[r].updates,
                                 rooms'[r].updates[Len(rooms'[r].updates)]),
                          LAST_K_UPDATES)]_vars

\* C6: under weak fairness of the retransmit task no entry stays in the
\* unacknowledged table for ever; the sends of a run are finitely many, so
\* the table is empty from some point on.
C6_TableDrains == <>[](unacked_packets = <<>>)

SnapshotEntries ==
  {i \in 1..Len(unacked_packets) :
     /\ unacked_packets[i].msg_type = MESSAGE_TYPES.SNAPSHOT
     /\ unacked_packets[i].player_id \in DOMAIN players
     /\ players[unacked_packets[i].player_id].room_id \in DOMAIN rooms
     /\ players[unacked_packets[i].player_id].address \in DOMAIN addr_to_player
     /\ addr_to_player[players[unacked_packets[i].player_id].address]
          = unacked_packets[i].player_id}

Fragment(expected_bytes) ==
  [frags |-> EmptyFcn, received_bytes |-> 0, expected_bytes |-> expected_bytes]

RECURSIVE sorted(_)
sorted(keys) ==
  IF keys = {} THEN <<>>
  ELSE LET least == CHOOSE k \in keys : \A other \in keys : k <= other
       IN <<least>> \o sorted(keys \ {least})

RECURSIVE join(_,_)
join(frags, keys) ==
  IF keys = <<>> THEN <<>>
  ELSE frags[keys[1]] \o join(frags, Tail(keys))

NoResult == [ok |-> FALSE, seq_keys |-> <<>>, payload |-> <<>>]

\* FragmentManager.add_fragment: the table afterwards and what is returned
add_fragment(table, client_address, msg_id, seq_num, payload_len, payload) ==
  LET key == <<client_address, msg_id>>
      opened == IF key \in DOMAIN table THEN table
                ELSE Put(table, key, Fragment(payload_len))
      frag == opened[key]
  IN IF seq_num \in DOMAIN frag.frags
     THEN [fragments |-> opened, result |-> NoResult]
     ELSE LET stored == [frag EXCEPT
                           !.frags = Put(@, seq_num, payload),
                           !.received_bytes = @ + Len(payload)]
              kept == [opened EXCEPT ![key] = stored]
              covered == sorted(DOMAIN stored.frags)
          IN IF stored.received_bytes >= stored.expected_bytes
             THEN IF \E i \in 1..(Len(covered) - 1) :
                       covered[i + 1] # covered[i] + 1
                  THEN [fragments |-> kept, result |-> NoResult]
                  ELSE [fragments |-> Drop(opened, key),
                        result |-> [ok |-> TRUE, seq_keys |-> covered,
                                    payload |-> join(stored.frags, covered)]]
             ELSE [fragments |-> kept, result |-> NoResult]

\* a body of n bytes
Body(n) == [i \in 1..n |-> i % 256]

\* body lengths around the fragment boundaries, up to MaxFrags fragments
BodyLens ==
  {0, 1} \cup {k * SNAPSHOT_PAYLOAD_LIMIT + d :
                 k \in 1..(MaxFrags - 1), d \in {0, 1}}

StartSeqs == 1..MaxStartSeq

\* the peer whose message is reassembled
Sender == 1

\* the first component of what Server.send passes to sendto for one message
FragInit ==
  /\ ServerStart(Constructed)
  /\ \E n \in BodyLens, start_seq \in StartSeqs :
       /\ message = [body |-> Body(n), start_seq |-> start_seq,
                     packets |-> build_packet(MESSAGE_TYPES.SNAPSHOT, 1,
                                              start_seq, Body(n), 0)]
       /\ channel = {message.packets[i] : i \in 1..Len(message.packets)}
  /\ dropped = {}
  /\ fragments = EmptyFcn
  /\ delivered = <<>>

\* handle_recv up to the dispatch: one datagram goes through add_fragment
ReceiveFragment ==
  \E pkt \in channel :
    LET r == add_fragment(fragments, Sender, pkt.pkt_id, pkt.seq,
                          pkt.payload_len, pkt.payload)
    IN /\ channel' = channel \ {pkt}
       /\ fragments' = r.fragments
       /\ delivered' = IF r.result.ok
                       THEN Append(delivered,
                                   [seq_keys |-> r.result.seq_keys,
                                    payload |-> r.result.payload])
                       ELSE delivered
       /\ UNCHANGED <<message, dropped>>
       /\ UNCHANGED servervars

\* the network loses one datagram
DropFragment ==
  \E pkt \in channel :
    /\ channel' = channel \ {pkt}
    /\ dropped' = dropped \cup {pkt}
    /\ UNCHANGED <<message, fragments, delivered>>
    /\ UNCHANGED servervars

FragNext == ReceiveFragment \/ DropFragment

FragSpec == FragInit /\ [][FragNext]_vars

MessageSeqs ==
  [i \in 1..Len(message.packets) |-> message.start_seq + i - 1]

\* C12: a message of F >= 1 fragments, each received once in any order, is
\* delivered exactly once, with all F sequence numbers in ascending order
\* and the original body: nothing is delivered before the last fragment has
\* arrived, and then exactly that one result has been.
C12_ReassemblyCompleteness ==
  dropped = {} =>
    IF channel = {}
    THEN delivered = << [seq_keys |-> MessageSeqs, payload |-> message.body] >>
    ELSE delivered = <<>>

\* C13: a message of F >= 2 fragments of which one is never received is
\* never delivered.
C13_DroppedNeverDelivers ==
  (Len(message.packets) >= 2 /\ dropped # {}) => delivered = <<>>

\* ------------------------------------------------------ rooms and rosters
\* the lobby beside a room in play: peers register, create rooms, join,
\* leave and disconnect
LobbyInit == Commit_Init(RoomFormed)

LobbyNext ==
  \/ Init_(RoomFormed)
  \/ CreateRoom(RoomFormed)
  \/ JoinRoom(RoomFormed)
  \/ LeaveRoom(RoomFormed)
  \/ Disconnect(RoomFormed)

LobbySpec == LobbyInit /\ [][LobbyNext]_vars

\* the rooms whose players map holds player_id
RoomsOf(player_id) ==
  {r \in DOMAIN rooms :
     \E i \in 1..Len(rooms[r].players) :
       rooms[r].players[i].global_id = player_id}

\* C14: after any sequence of JOIN_ROOM, LEAVE_ROOM and DISCONNECT, every
\* player_id is in the players map of at most one room.
C14_OneRoomPerPlayer ==
  \A player_id \in 1..next_player_id : Cardinality(RoomsOf(player_id)) <= 1

\* ------------------------------------------------- duplicates, strangers
\* what add_fragment hands to the dispatcher for a datagram that arrives
\* when no group of its (address, pkt_id) is open: the whole datagram, and
\* no group is left behind
DeliveredAlone(pkt, addr) ==
  add_fragment(EmptyFcn, addr, pkt.pkt_id, pkt.seq, pkt.payload_len,
               pkt.payload)
    = [fragments |-> EmptyFcn,
       result |-> [ok |-> TRUE, seq_keys |-> seq_keys(pkt),
                   payload |-> pkt.payload]]

\* the requests of a client with header sequence number sq
Requests(sq) ==
  {Inbound(MESSAGE_TYPES.INIT, sq, 0, <<>>),
   Inbound(MESSAGE_TYPES.CREATE_ROOM, sq, 0, <<>>),
   Inbound(MESSAGE_TYPES.LEAVE_ROOM, sq, 0, <<>>)}
    \cup {Inbound(MESSAGE_TYPES.JOIN_ROOM, sq, 0,
                  build_join_room_payload(room_id)) : room_id \in RoomInputs}
    \cup {Inbound(MESSAGE_TYPES.EVENT, sq, 0,
                  build_event_payload(ev[1], ev[2], ev[3], ev[4])) :
            ev \in EventInputs}

\* one draw of the colour generator for a JOIN_ROOM: the lowest colour that
\* no member of the room holds
DrawFor(s, pkt) ==
  LET room_id == parse_join_room_payload(pkt.payload) IN
  IF pkt.msg_type = MESSAGE_TYPES.JOIN_ROOM /\ room_id \in DOMAIN s.rooms
  THEN CHOOSE c \in Colors \ RosterColors(s.rooms[room_id]) :
         \A d \in Colors \ RosterColors(s.rooms[room_id]) : c <= d
  ELSE 1

\* the peer registry, the room table and every room's roster, grid and
\* snapshot_id
Authoritative(s) ==
  [players |-> s.players, addr_to_player |-> s.addr_to_player,
   rooms |-> [r \in DOMAIN s.rooms |->
                [players |-> s.rooms[r].players, grid |-> s.rooms[r].grid,
                 snapshot_id |-> s.rooms[r].snapshot_id]]]

\* C15: a second copy of a request (INIT, CREATE_ROOM, JOIN_ROOM,
\* LEAVE_ROOM or EVENT with the same pkt_id and seq from the same address)
\* leaves the peer registry, the room table and every room's roster, grid
\* and snapshot_id as they were after the first copy.
C15_DuplicateRequestIdempotent ==
  \A addr \in Addrs, sq \in InSeqs :
    \A pkt \in Requests(sq) :
      LET once == Quiet(handle_recv(SV, pkt, addr, DrawFor(SV, pkt)))
          twice == handle_recv(once, pkt, addr, DrawFor(once, pkt))
      IN DeliveredAlone(pkt, addr)
           => Authoritative(twice) = Authoritative(once)

\* the datagrams other than INIT with header sequence number sq
NonInit(sq) ==
  {q \in Requests(sq) : q.msg_type # MESSAGE_TYPES.INIT}
    \cup {Inbound(MESSAGE_TYPES.DISCONNECT, sq, 0, <<>>)}
    \cup {AckPkt(t, sq, snap, acked) :
            t \in AckTypes, snap \in HeaderSnaps, acked \in AckSeqs}

\* C16: a message other than INIT from an address that is not in the peer
\* registry is dropped: registry, room table, unacknowledged table and
\* counters stay as they are and nothing is sent.
C16_UnknownPeerDropped ==
  \A addr \in Addrs \ DOMAIN addr_to_player, sq \in InSeqs :
    \A pkt \in NonInit(sq) :
      handle_recv(SV, pkt, addr, DrawFor(SV, pkt)) = SV

\* ------------------------------------------------------------ departures
\* C17: once DISCONNECT of a registered peer has been processed, the peer
\* is in no roster, no entry of the unacknowledged table bears its
\* player_id, and its peer entry and address mapping are gone.
C17_DisconnectPurgesPeer ==
  \A addr \in DOMAIN addr_to_player, sq \in InSeqs :
    LET player_id == addr_to_player[addr]
        after == handle_disconnect(
                   SV, Inbound(MESSAGE_TYPES.DISCONNECT, sq, 0, <<>>), addr)
    IN /\ player_id \notin DOMAIN after.players
       /\ addr \notin DOMAIN after.addr_to_player
       /\ \A r \in DOMAIN after.rooms :
            \A i \in 1..Len(after.rooms[r].players) :
              after.rooms[r].players[i].global_id # player_id
       /\ \A i \in 1..Len(after.unacked_packets) :
            after.unacked_packets[i].player_id # player_id

\* the messages that change the membership of a room
MembershipRequests(sq) ==
  {Inbound(MESSAGE_TYPES.LEAVE_ROOM, sq, 0, <<>>),
   Inbound(MESSAGE_TYPES.DISCONNECT, sq, 0, <<>>)}
    \cup {Inbound(MESSAGE_TYPES.JOIN_ROOM, sq, 0,
                  build_join_room_payload(room_id)) : room_id \in RoomInputs}

\* p is a JOIN_ACK or a LEAVE_ACK whose roster is the given one
CarriesRoster(p, roster) ==
  LET listed == <<Len(roster)>> \o RosterEntries(roster) IN
  \/ /\ p.msg_type = MESSAGE_TYPES.JOIN_ACK
     /\ SubSeq(p.payload, 4, Len(p.payload)) = listed
  \/ /\ p.msg_type = MESSAGE_TYPES.LEAVE_ACK
     /\ SubSeq(p.payload, 2, Len(p.payload)) = listed

\* C18: whenever JOIN_ROOM, LEAVE_ROOM or DISCONNECT changes the roster of a
\* room, the server sends the new roster to every member that remains in
\* that room.
C18_RosterFanOut ==
  \A addr \in DOMAIN addr_to_player, sq \in InSeqs :
    \A pkt \in MembershipRequests(sq) :
      LET after == handle_recv(SV, pkt, addr, DrawFor(SV, pkt)) IN
      \A r \in DOMAIN rooms :
        after.rooms[r].players # rooms[r].players =>
          \A i \in 1..Len(after.rooms[r].players) :
            LET global_id == after.rooms[r].players[i].global_id IN
            global_id \in DOMAIN after.players =>
              \E j \in 1..Len(after.out) :
                /\ after.out[j].to = after.players[global_id].address
                /\ CarriesRoster(after.out[j].pkt, after.rooms[r].players)

\* the registered peer at addr is a member of a room
IsMember(addr) ==
  LET player_id == addr_to_player[addr] IN
  /\ player_id \in DOMAIN players
  /\ player_id \in DOMAIN seq
  /\ players[player_id].room_id \in DOMAIN rooms
  /\ players[player_id].player_local_id
       \in RosterLids(rooms[players[player_id].room_id])

\* C19: LEAVE_ROOM from a member resets its room_id and local id to 0,
\* frees its slot, and is answered to the requester with a LEAVE_ACK that
\* names the sequence number of the request.
C19_LeaveAckedToRequester ==
  \A addr \in DOMAIN addr_to_player, sq \in InSeqs :
    IsMember(addr) =>
      LET player_id == addr_to_player[addr]
          room_id == players[player_id].room_id
          local_id == players[player_id].player_local_id
          after == handle_leave_room(
                     SV, Inbound(MESSAGE_TYPES.LEAVE_ROOM, sq, 0, <<>>), addr)
      IN /\ after.players[player_id].room_id = 0
         /\ after.players[player_id].player_local_id = 0
         /\ local_id \notin RosterLids(after.rooms[room_id])
         /\ \E j \in 1..Len(after.out) :
              /\ after.out[j].to = addr
              /\ after.out[j].pkt.msg_type = MESSAGE_TYPES.LEAVE_ACK
              /\ after.out[j].pkt.payload[1] = sq

\* no running client is in the lobby (an invariant of SystemSpec, where
\* clients do send LEAVE_ROOM)
NoClientInLobby ==
  \A a \in Online : clients[a].room_id # 0

\* ------------------------------------------------------- stale replays
\* a member whose client is not among the running ones sends an EVENT
MemberEvent ==
  \E addr \in Members \ Online, sq \in InSeqs, ev \in EventInputs :
    ServerStep(handle_event(
                 SV, Inbound(MESSAGE_TYPES.EVENT, sq, 0,
                             build_event_payload(ev[1], ev[2], ev[3], ev[4])),
                 addr), {})

\* the running clients receive what the server sends on the events of the
\* other members and on its broadcast task, in any order
ReplayNext ==
  \/ MemberEvent
  \/ ServerBroadcast
  \/ ClientReceives
  \/ ServerReceives

ReplaySpec == SystemInit /\ [][ReplayNext]_vars

StateMessages ==
  {MESSAGE_TYPES.EVENT, MESSAGE_TYPES.UPDATES, MESSAGE_TYPES.SNAPSHOT}

\* C20: a server message (EVENT, UPDATES or SNAPSHOT) whose header
\* snapshot_id is older than the client's own changes neither the grid nor
\* the snapshot_id of the client that processes it.
C20_StaleReplayDiscarded ==
  \A d \in wire :
    (/\ ~d.up
     /\ d.pkt.msg_type \in StateMessages
     /\ d.pkt.snapshot_id < clients[d.peer].snapshot_id)
      => LET after == client_handle_recv(clients[d.peer], d.pkt) IN
         /\ after.grid = clients[d.peer].grid
         /\ after.snapshot_id = clients[d.peer].snapshot_id

\* ------------------------------------------------------ client, UPDATES
\* C21: the client answers every UPDATES message it receives, whatever the
\* number of entries and whatever the lag, with one UPDATES_ACK that names
\* the sequence number of the message.
C21_EveryUpdatesAcked ==
  \A d \in wire :
    (~d.up /\ d.pkt.msg_type = MESSAGE_TYPES.UPDATES)
      => LET after == client_handle_recv(clients[d.peer], d.pkt) IN
         /\ Len(after.out) = 1
         /\ after.out[1].msg_type = MESSAGE_TYPES.UPDATES_ACK
         /\ after.out[1].payload = build_updates_ack_payload(d.pkt.seq)

\* the history of a room: a member sends events, the broadcast task sends
\* UPDATES with the last REDUNDANT_K_UPDATES entries, and no ACK arrives
HistoryStep(base, s) ==
  /\ \A r \in DOMAIN s.rooms : s.rooms[r].snapshot_id <= MaxHistory
  /\ Len(s.unacked_packets) <= MaxBroadcasts * REQUIRED_ROOM_PLAYERS
  /\ s.pkt_id <= base.pkt_id + MaxHistory + MaxBroadcasts
  /\ Commit(s)

HistoryEvent(base) ==
  \E ev \in EventInputs :
    HistoryStep(base,
                handle_event(
                  SV, Inbound(MESSAGE_TYPES.EVENT, 1, 0,
                              build_event_payload(ev[1], ev[2], ev[3], ev[4])),
                  REQUIRED_ROOM_PLAYERS))

HistoryBroadcast(base) == HistoryStep(base, send_updates_to_all(SV))

HistoryNext == HistoryEvent(RoomFormed) \/ HistoryBroadcast(RoomFormed)

HistorySpec == RoomInit /\ [][HistoryNext]_vars

\* the UPDATES packets that the server has generated for a player
UpdatesFor(player_id) ==
  {unacked_packets[i].packet : i \in
     {j \in 1..Len(unacked_packets) :
        /\ unacked_packets[j].player_id = player_id
        /\ unacked_packets[j].msg_type = MESSAGE_TYPES.UPDATES}}

\* the updates that an UPDATES packet covers, by the snapshot_id they reach
Covers(p) == (p.snapshot_id - p.payload[1] + 1)..p.snapshot_id

\* the client of player 1 as it joined, and after any one of the packets
ClientStates ==
  {ClientJoined} \cup {handle_updates(ClientJoined, p) : p \in UpdatesFor(1)}

Outcome(c, first, second) ==
  LET c2 == handle_updates(handle_updates(c, first), second)
  IN [grid |-> c2.grid, snapshot_id |-> c2.snapshot_id]

Newer(p, q) == IF p.snapshot_id >= q.snapshot_id THEN p ELSE q

\* the client at c can apply p on arrival, or p is stale for it
WithinReach(c, p) == p.snapshot_id - c.snapshot_id <= p.payload[1]

\* C22: two UPDATES packets of the same room that cover a common update
\* leave the client with the same grid and snapshot_id in either order of
\* arrival, for any client state.
C22_UpdatesOrderIndependent ==
  \A p \in UpdatesFor(1), q \in UpdatesFor(1) :
    Covers(p) \cap Covers(q) # {} =>
      \A c \in ClientStates : Outcome(c, p, q) = Outcome(c, q, p)

\* C22, amended: the same, for the client states from which the packet
\* with the larger snapshot_id is within reach (its lag behind that packet
\* is at most the number of entries the packet carries).
C22_OrderIndependentWithinReach ==
  \A p \in UpdatesFor(1), q \in UpdatesFor(1) :
    Covers(p) \cap Covers(q) # {} =>
      \A c \in ClientStates :
        WithinReach(c, Newer(p, q)) => Outcome(c, p, q) = Outcome(c, q, p)

\* two packets of different snapshots that share an update have both been
\* applied: the later one brought the client an owned cell
C22_TwoPacketsApplied ==
  \E p \in UpdatesFor(1), q \in UpdatesFor(1) :
    /\ p.snapshot_id < q.snapshot_id
    /\ Covers(p) \cap Covers(q) # {}
    /\ WithinReach(ClientJoined, q)
    /\ Outcome(ClientJoined, p, q) = Outcome(ClientJoined, q, p)
    /\ Outcome(ClientJoined, p, q).snapshot_id = q.snapshot_id
    /\ handle_updates(ClientJoined, p).grid # Outcome(ClientJoined, p, q).grid

\* A room whose history outgrows LAST_K_UPDATES while a client is behind:
\* a member that is not a client of the model sends events, datagrams can
\* be lost, and the clients request cells, receive and time out.
\* a rival requests only a cell that is still free (request_cell), here
\* once the history of the room is LAST_K_UPDATES long, and sends events
\* of the other type at will
RivalInputs ==
  {<<CELL_ACQUISITION, 1, REQUIRED_ROOM_PLAYERS, c>> :
     c \in {x \in Cells : /\ rooms[1].grid[x + 1] = 0
                          /\ rooms[1].snapshot_id >= LAST_K_UPDATES}}
    \cup {<<1, 1, REQUIRED_ROOM_PLAYERS, 0>>}

\* the clients that act: the first NumAckers members
Laggards == 1..NumAckers

ToLaggards(outs) == {d \in Downlink(outs) : d.peer \in Laggards}

LossyStep(base, s, cs, w) ==
  /\ \A r \in DOMAIN s.rooms :
       s.rooms[r].snapshot_id <= LAST_K_UPDATES + MaxBehind
  /\ s.pkt_id <= base.sv.pkt_id + LAST_K_UPDATES + MaxBehind + MaxBroadcasts
  /\ Len(s.unacked_packets) <= MaxUnacked
  /\ \A a \in Laggards : cs[a].seq <= base.clients[a].seq + MaxSends
  /\ Cardinality(w) <= MaxWire
  /\ next_player_id' = s.next_player_id
  /\ players' = s.players
  /\ addr_to_player' = s.addr_to_player
  /\ next_room_id' = s.next_room_id
  /\ rooms' = s.rooms
  /\ pkt_id' = s.pkt_id
  /\ seq' = s.seq
  /\ unacked_packets' = s.unacked_packets
  /\ out' = s.out
  /\ clients' = [a \in DOMAIN cs |-> [cs[a] EXCEPT !.out = <<>>]]
  /\ wire' = w
  /\ UNCHANGED fragvars

LossyRequest(base) ==
  \E a \in Laggards, cell_idx \in Cells, lost \in BOOLEAN :
    LET c == request_cell(clients[a], cell_idx) IN
    LossyStep(base, SV, [clients EXCEPT ![a] = c],
              IF lost THEN wire ELSE wire \cup Uplink(a, c))

\* the EVENT broadcasts of the rival are unreliable and reach no client
LossyRival(base) ==
  \E ev \in RivalInputs :
    LossyStep(base,
              handle_event(SV, Inbound(MESSAGE_TYPES.EVENT, 1, 0,
                                       build_event_payload(ev[1], ev[2],
                                                           ev[3], ev[4])),
                           REQUIRED_ROOM_PLAYERS),
              clients, wire)

\* the broadcasts that reach a client are those of the first MaxBehind
\* snapshots of the room
LossyBroadcast(base) ==
  /\ rooms[1].snapshot_id <= MaxBehind
  /\ LET s == send_updates_to_all(SV) IN
     LossyStep(base, s, clients, wire \cup ToLaggards(s.out))

LossyClientReceives(base) ==
  \E d \in wire :
    /\ ~d.up
    /\ LET c == client_handle_recv(clients[d.peer], d.pkt) IN
       LossyStep(base, SV, [clients EXCEPT ![d.peer] = c],
                 (wire \ {d}) \cup Uplink(d.peer, c))

LossyServerReceives(base) ==
  \E d \in wire :
    /\ d.up
    /\ LET s == handle_recv(SV, d.pkt, d.peer, 1) IN
       LossyStep(base, s, clients, (wire \ {d}) \cup ToLaggards(s.out))

LossyTimeout(base) ==
  \E a \in Laggards :
    \E cut \in 1..Len(clients[a].pending_cells) :
      LET c == check_pending_cells(clients[a], cut) IN
      LossyStep(base, SV, [clients EXCEPT ![a] = c],
                wire \cup Uplink(a, c))

LossyNext ==
  \/ LossyRequest(Formed)
  \/ LossyRival(Formed)
  \/ LossyBroadcast(Formed)
  \/ LossyClientReceives(Formed)
  \/ LossyServerReceives(Formed)
  \/ LossyTimeout(Formed)

LossySpec == SystemInit /\ [][LossyNext]_vars

\* the cells a client has requested and not yet seen settled
PendingOf(a) == {clients[a].pending_cells[i] :
                   i \in 1..Len(clients[a].pending_cells)}

\* C23: in every reachable state, each cell in a client's pending_cells is
\* free (0) in that client's grid
C23_PendingCellsAreFree ==
  \A a \in Online :
    \A cell_idx \in PendingOf(a) : clients[a].grid[cell_idx + 1] = 0

\* the members of rooms that are short of players
Waiting ==
  {addr \in DOMAIN addr_to_player :
     /\ IsMember(addr)
     /\ Len(rooms[players[addr_to_player[addr]].room_id].players)
          < REQUIRED_ROOM_PLAYERS}

JoinOutcome(s, addr, sq, room_id, color) ==
  LET after == handle_join_room(
                 s, Inbound(MESSAGE_TYPES.JOIN_ROOM, sq, 0,
                            build_join_room_payload(room_id)), addr, color)
  IN IF room_id \notin DOMAIN s.rooms THEN after = s
     ELSE LET lids == RosterLids(s.rooms[room_id])
              roster == after.rooms[room_id].players
          IN IF 1..REQUIRED_ROOM_PLAYERS \subseteq lids THEN after = s
             ELSE after.rooms # s.rooms =>
                    /\ Len(roster) = Len(s.rooms[room_id].players) + 1
                    /\ SubSeq(roster, 1, Len(roster) - 1)
                         = s.rooms[room_id].players
                    /\ roster[Len(roster)].lid \notin lids
                    /\ roster[Len(roster)].lid \in 1..REQUIRED_ROOM_PLAYERS
                    /\ \A k \in 1..(roster[Len(roster)].lid - 1) : k \in lids

\* the server state once the member at addr has left its room
AfterLeave(addr) ==
  [handle_leave_room(SV, Inbound(MESSAGE_TYPES.LEAVE_ROOM, 1, 0, <<>>), addr)
     EXCEPT !.out = <<>>]

\* C25: the local ids of every room are distinct and lie in
\* 1..REQUIRED_ROOM_PLAYERS; a JOIN_ROOM that is admitted, in the current
\* state or once any member has left, takes the lowest free local id; a
\* JOIN_ROOM to a full room or to a room that does not exist changes
\* nothing and is not answered
C25_CapacityAndLowestFreeId ==
  /\ \A r \in DOMAIN rooms :
       /\ RosterLids(rooms[r]) \subseteq 1..REQUIRED_ROOM_PLAYERS
       /\ Cardinality(RosterLids(rooms[r])) = Len(rooms[r].players)
  /\ \A addr \in Addrs, sq \in InSeqs, room_id \in RoomInputs :
       /\ \A color \in ColorDraws(room_id) :
            JoinOutcome(SV, addr, sq, room_id, color)
       /\ \A left \in {a \in DOMAIN addr_to_player : IsMember(a)} :
            \A color \in ColorDraws(room_id) :
              JoinOutcome(AfterLeave(left), addr, sq, room_id, color)

\* a newcomer has just been admitted to the slot that a leaver freed
C25_NewcomerTakesFreedSlot ==
  \E r \in DOMAIN rooms :
    /\ Len(rooms[r].players) = REQUIRED_ROOM_PLAYERS
    /\ rooms[r].players[REQUIRED_ROOM_PLAYERS].global_id
         > REQUIRED_ROOM_PLAYERS
    /\ \E j \in 1..Len(out) :
         /\ out[j].pkt.msg_type = MESSAGE_TYPES.JOIN_ACK
         /\ out[j].to = players[rooms[r].players[REQUIRED_ROOM_PLAYERS]
                                  .global_id].address

\* C26: in every reachable state, any two entries of the roster of a room
\* hold different colours
C26_ColorsDistinctPerRoom ==
  \A r \in DOMAIN rooms :
    \A i, j \in 1..Len(rooms[r].players) :
      i # j => rooms[r].players[i].color # rooms[r].players[j].color

\* a newcomer has filled the room again after a member left, and holds a
\* colour that no other member of the room holds
C26_NewcomerColorIsFree ==
  \E r \in DOMAIN rooms :
    /\ Len(rooms[r].players) = REQUIRED_ROOM_PLAYERS
    /\ \E i \in 1..Len(rooms[r].players) :
         /\ rooms[r].players[i].global_id > REQUIRED_ROOM_PLAYERS
         /\ \A j \in 1..Len(rooms[r].players) \ {i} :
              rooms[r].players[j].color # rooms[r].players[i].color

\* the registered player of addr is no member of room_id: its record names
\* another room or none, and the roster of room_id does not list it
Outsider(addr, room_id) ==
  LET player_id == addr_to_player[addr] IN
  /\ player_id \in DOMAIN players => players[player_id].room_id # room_id
  /\ room_id \in DOMAIN rooms =>
       \A i \in 1..Len(rooms[room_id].players) :
         rooms[room_id].players[i].global_id # player_id

\* C27: an EVENT from a registered address whose player is not a member of
\* the room named in the payload leaves every room as it is and makes the
\* server send nothing, whatever room id and local id the payload names
C27_OutsiderEventDropped ==
  \A addr \in DOMAIN addr_to_player, sq \in InSeqs, ev \in EventInputs :
    Outsider(addr, ev[2]) =>
      LET after == handle_event(
                     SV, Inbound(MESSAGE_TYPES.EVENT, sq, 0,
                                 build_event_payload(ev[1], ev[2], ev[3],
                                                     ev[4])), addr)
      IN /\ after.rooms = rooms
         /\ after.out = <<>>

\* ------------------------------------------------ send, line by line
\* build_packet returns the pair (packets, next seq), and the loop
\* `for p in pkts` of Server.send and Client.send runs over that pair: p is
\* the list of packets, then the integer.  socket.sendto raises for either
\* (the exception is swallowed), the entry of unacked_packets stores p, and
\* the sequence number advances once per element of the pair.
PairOf(packets, start_seq) ==
  << [bytes |-> FALSE, packets |-> packets, number |-> 0],
     [bytes |-> FALSE, packets |-> <<>>,
      number |-> start_seq + Len(packets)] >>

\* sock.sendto(p, address), repeat times, inside try/except
sendto(p, address, repeat) ==
  IF p.bytes THEN Repeat([to |-> address, pkt |-> p], repeat) ELSE <<>>

RECURSIVE send_pair_loop(_,_,_,_,_,_,_)
send_pair_loop(s, pkts, msg_type, address, player_id, ack, repeat) ==
  IF pkts = <<>> THEN s
  ELSE send_pair_loop(
         [s EXCEPT
            !.out = @ \o sendto(pkts[1], address, repeat),
            !.unacked_packets =
               IF ack
               THEN Append(@, Unacked(s.seq[player_id], player_id, pkts[1],
                                      msg_type))
               ELSE @,
            !.seq = [@ EXCEPT ![player_id] = @ + 1]],
         Tail(pkts), msg_type, address, player_id, ack, repeat)

\* Server.send
send_pair(s, msg_type, address, payload, ack, repeat) ==
  LET rep == IF ack THEN 1 ELSE repeat IN
  IF rep < 1 THEN s
  ELSE IF address \notin DOMAIN s.addr_to_player THEN s
  ELSE LET player_id == s.addr_to_player[address] IN
    IF player_id \notin DOMAIN s.seq THEN s
    ELSE send_pair_loop(
           s, PairOf(build_packet(msg_type, s.pkt_id, s.seq[player_id],
                                  payload, 0), s.seq[player_id]),
           msg_type, address, player_id, ack, rep)

RECURSIVE client_send_pair_loop(_,_,_,_,_)
client_send_pair_loop(c, pkts, msg_type, ack, repeat) ==
  IF pkts = <<>> THEN c
  ELSE client_send_pair_loop(
         [c EXCEPT
            !.out = @ \o sendto(pkts[1], 0, repeat),
            !.unacked_packets =
               IF ack THEN Append(@, ClientUnacked(c.seq, pkts[1], msg_type))
               ELSE @,
            !.seq = @ + 1],
         Tail(pkts), msg_type, ack, repeat)

\* Client.send
client_send_pair(c, msg_type, payload, ack, repeat) ==
  LET rep == IF ack THEN 1 ELSE repeat IN
  IF rep < 1 THEN c
  ELSE [client_send_pair_loop(
          c, PairOf(build_packet(msg_type, c.pkt_id, c.seq, payload,
                                 c.snapshot_id), c.seq),
          msg_type, ack, rep)
          EXCEPT !.pkt_id = @ + 1]

\* the sends of the server: the K-redundant ones and the reliable ones
ServerSends ==
  {[msg_type |-> m, ack |-> FALSE] :
     m \in {MESSAGE_TYPES.JOIN_ACK, MESSAGE_TYPES.LEAVE_ACK,
            MESSAGE_TYPES.EVENT}}
    \cup {[msg_type |-> MESSAGE_TYPES.SNAPSHOT, ack |-> TRUE]}

\* the sends of the client: a reliable request and an EVENT
ClientSends ==
  {[msg_type |-> MESSAGE_TYPES.LEAVE_ROOM, ack |-> TRUE],
   [msg_type |-> MESSAGE_TYPES.EVENT, ack |-> FALSE]}

SomePayload == build_event_payload(CELL_ACQUISITION, 1, 1, 0)

ServerSendsPair(base) ==
  \E address \in Online, k \in ServerSends :
    LET s == send_pair(SV, k.msg_type, address, SomePayload, k.ack,
                       REDUNDANT_K_PACKETS)
    IN /\ \A p \in DOMAIN s.seq :
            s.seq[p] <= base.sv.seq[p] + MaxSends + MaxSends
       /\ Commit(s)

ClientSendsPair(base) ==
  \E a \in Online, k \in ClientSends :
    LET c == client_send_pair(clients[a], k.msg_type, SomePayload, k.ack,
                              REDUNDANT_K_PACKETS)
    IN /\ c.seq <= base.clients[a].seq + MaxClientSends + MaxClientSends
       /\ clients' = [clients EXCEPT ![a] = c]
       /\ UNCHANGED <<next_player_id, players, addr_to_player, next_room_id,
                      rooms, pkt_id, seq, unacked_packets, out, wire>>
       /\ UNCHANGED fragvars

PairNext == ServerSendsPair(Formed) \/ ClientSendsPair(Formed)

PairSpec == SystemInit /\ [][PairNext]_vars

\* C28: a K-redundant send of the server emits REDUNDANT_K_PACKETS copies
\* and adds no entry to unacked_packets; a reliable send, of the server or
\* of a client, emits one copy and adds one entry per fragment (here one)
C28_RedundantOrReliable ==
  /\ \A address \in Online, k \in ServerSends :
       LET after == send_pair(SV, k.msg_type, address, SomePayload, k.ack,
                              REDUNDANT_K_PACKETS)
       IN IF k.ack
          THEN /\ Len(after.out) = 1
               /\ Len(after.unacked_packets) = Len(unacked_packets) + 1
          ELSE /\ Len(after.out) = REDUNDANT_K_PACKETS
               /\ after.unacked_packets = unacked_packets
  /\ \A a \in Online :
       LET after == client_send_pair(clients[a], MESSAGE_TYPES.LEAVE_ROOM,
                                     <<>>, TRUE, 1)
       IN /\ Len(after.out) = Len(clients[a].out) + 1
          /\ Len(after.unacked_packets)
               = Len(clients[a].unacked_packets) + 1

\* ------------------------------------------------------ room lifecycle
\* Every member of the full room may leave or disconnect; the broadcast
\* task runs, and the retransmit task keeps running (weak fairness).
MemberLeaves(base) ==
  \E addr \in Members, sq \in InSeqs : RecvLeaveRoom(base, addr, sq)

MemberDisconnects(base) ==
  \E addr \in Members, sq \in InSeqs : RecvDisconnect(base, addr, sq)

LifecycleNext ==
  \/ MemberLeaves(RoomFormed)
  \/ MemberDisconnects(RoomFormed)
  \/ Broadcast(RoomFormed)
  \/ Retransmit(RoomFormed)

LifecycleSpec ==
  /\ RoomInit
  /\ [][LifecycleNext]_vars
  /\ WF_vars(Retransmit(RoomFormed))

\* C29: once the last player of room 1 has left it, the room is eventually
\* removed from the room table
C29_EmptyRoomDestroyed ==
  (1 \in DOMAIN rooms /\ rooms[1].players = <<>>) ~> (1 \notin DOMAIN rooms)

\* the packets that the server has sent to player_id and still holds, and
\* those it has just sent to it; every message of the model is one
\* fragment, so two packets of one peer that differ in seq are two messages
HeldFor(player_id) ==
  {unacked_packets[i].packet :
     i \in {j \in 1..Len(unacked_packets) :
              unacked_packets[j].player_id = player_id}}

JustSentTo(player_id) ==
  {out[i].pkt :
     i \in {j \in 1..Len(out) :
              /\ out[j].to \in DOMAIN addr_to_player
              /\ addr_to_player[out[j].to] = player_id}}

\* C30: two distinct messages that the server has sent to the same peer
\* bear different packet ids
C30_PacketIdsDistinct ==
  \A player_id \in DOMAIN seq :
    \A p, q \in HeldFor(player_id) \cup JustSentTo(player_id) :
      p.seq # q.seq => p.pkt_id # q.pkt_id

\* ------------------------------------------------ per-peer sequencing
\* the entries that a send has added to a table of unacknowledged packets
AddedBy(before, after) == SubSeq(after, Len(before) + 1, Len(after))

\* C31: a send of a message of F fragments advances the sender's counter
\* for the peer by exactly F, and every entry it adds to unacked_packets
\* is stored under the sequence number of one of the F fragments and holds
\* a fragment (bytes), not the list of packets or the next number
C31_CounterAdvancesByFragments ==
  /\ \A address \in Online, k \in ServerSends :
       LET player_id == addr_to_player[address]
           frags == build_packet(k.msg_type, pkt_id, seq[player_id],
                                 SomePayload, 0)
           after == send_pair(SV, k.msg_type, address, SomePayload, k.ack,
                              REDUNDANT_K_PACKETS)
           added == AddedBy(unacked_packets, after.unacked_packets)
       IN /\ after.seq[player_id] = seq[player_id] + Len(frags)
          /\ \A i \in 1..Len(added) :
               /\ added[i].packet.bytes
               /\ added[i].seq - seq[player_id] + 1 \in 1..Len(frags)
  /\ \A a \in Online, k \in ClientSends :
       LET frags == build_packet(k.msg_type, clients[a].pkt_id, clients[a].seq,
                                 SomePayload, clients[a].snapshot_id)
           after == client_send_pair(clients[a], k.msg_type, SomePayload,
                                     k.ack, REDUNDANT_K_PACKETS)
           added == AddedBy(clients[a].unacked_packets, after.unacked_packets)
       IN /\ after.seq = clients[a].seq + Len(frags)
          /\ \A i \in 1..Len(added) :
               /\ added[i].packet.bytes
               /\ added[i].seq - clients[a].seq + 1 \in 1..Len(frags)

\* ------------------------------------------------------ codec, in bytes
\* A datagram is the sequence of its bytes.  struct.pack lays a field out
\* big-endian on `width` bytes; the inputs of CodecSpec fit their fields
\* (struct.pack raises for a value that does not).
RECURSIVE pack(_,_)
pack(width, n) ==
  IF width = 0 THEN <<>> ELSE Append(pack(width - 1, n \div 256), n % 256)

RECURSIVE unpack(_)
unpack(bytes) ==
  IF bytes = <<>> THEN 0
  ELSE 256 * unpack(SubSeq(bytes, 1, Len(bytes) - 1)) + bytes[Len(bytes)]

\* zlib.crc32 is represented by a position-weighted sum of the bytes: like
\* the CRC it is a function of the bytes alone
RECURSIVE WeightedSum(_,_,_)
WeightedSum(data, lo, hi) ==
  IF lo > hi THEN 0
  ELSE IF lo = hi THEN (lo * data[lo]) % 65521
  ELSE LET mid == (lo + hi) \div 2
       IN (WeightedSum(data, lo, mid) + WeightedSum(data, mid + 1, hi)) % 65521

compute_checksum(header_bytes, payload) ==
  WeightedSum(header_bytes \o payload, 1, Len(header_bytes) + Len(payload))

PROTOCOL_ID == <<69, 83, 80, 49>>

\* HEADER_FMT = "!4s B B I I Q H I I"
make_header(msg_type, pid, seq_num, payload_len, timestamp, checksum, snapshot_id) ==
  PROTOCOL_ID \o pack(1, VERSION) \o pack(1, msg_type)
    \o pack(4, snapshot_id) \o pack(4, seq_num) \o pack(8, timestamp)
    \o pack(2, payload_len) \o pack(4, pid) \o pack(4, checksum)

\* one packet of build_packet: the header with its checksum, then the data
build_datagram(msg_type, pid, seq_num, frag_data, ts, snapshot_id) ==
  LET header == make_header(msg_type, pid, seq_num, Len(frag_data), ts, 0,
                            snapshot_id)
      checksum == compute_checksum(header, frag_data)
  IN make_header(msg_type, pid, seq_num, Len(frag_data), ts, checksum,
                 snapshot_id) \o frag_data

\* seq_num of the fragment frag_idx (from 0) when every fragment bears
\* start_seq
frag_seq_stuck(start_seq, frag_idx) == start_seq

\* seq_num = start_seq, then seq_num += 1 after each fragment
frag_seq(start_seq, frag_idx) == start_seq + frag_idx

\* the packets of build_packet as bytes; ts is what time.time_ns() returns
build_packet_bytes(msg_type, pid, start_seq, payload, snapshot_id, ts) ==
  IF payload = <<>>
  THEN << build_datagram(msg_type, pid, start_seq, <<>>, ts, snapshot_id) >>
  ELSE LET max_data == SNAPSHOT_PAYLOAD_LIMIT
           total_frags == (Len(payload) + max_data - 1) \div max_data
       IN [k \in 1..total_frags |->
             LET start == (k - 1) * max_data
                 end == IF Len(payload) < start + max_data
                        THEN Len(payload) ELSE start + max_data
             IN build_datagram(msg_type, pid, frag_seq(start_seq, k - 1),
                               SubSeq(payload, start + 1, end), ts,
                               snapshot_id)]

NotParsed == [ok |-> FALSE]

\* None is NotParsed
parse_packet(data) ==
  IF Len(data) < HEADER_SIZE THEN NotParsed
  ELSE LET payload == SubSeq(data, HEADER_SIZE + 1, Len(data))
           protocol == SubSeq(data, 1, 4)
           version == unpack(SubSeq(data, 5, 5))
           msg_type == unpack(SubSeq(data, 6, 6))
           snapshot_id == unpack(SubSeq(data, 7, 10))
           seq_num == unpack(SubSeq(data, 11, 14))
           timestamp == unpack(SubSeq(data, 15, 22))
           payload_len == unpack(SubSeq(data, 23, 24))
           pid == unpack(SubSeq(data, 25, 28))
           checksum == unpack(SubSeq(data, 29, 32))
           header_zero == make_header(msg_type, pid, seq_num, payload_len,
                                      timestamp, 0, snapshot_id)
       IN IF protocol # PROTOCOL_ID \/ version # VERSION THEN NotParsed
          ELSE IF compute_checksum(header_zero, payload) # checksum
          THEN NotParsed
          ELSE [ok |-> TRUE, msg_type |-> msg_type, pkt_id |-> pid,
                seq |-> seq_num, timestamp |-> timestamp,
                payload_len |-> payload_len, payload |-> payload,
                snapshot_id |-> snapshot_id]

\* header fields of one and of several bytes, and a start_seq whose
\* successor carries into the next byte
CodecMsgTypes == {MESSAGE_TYPES.INIT, MESSAGE_TYPES.SNAPSHOT}
CodecPktIds == {1, 70000}
CodecStartSeqs == {1, 255}
CodecSnapshotIds == {0, 300}
CodecTime == 1700000

\* build_packet has been called on one message; its packets wait in channel
CodecInit ==
  /\ ServerStart(Constructed)
  /\ \E msg_type \in CodecMsgTypes, pid \in CodecPktIds,
        start_seq \in CodecStartSeqs, snapshot_id \in CodecSnapshotIds,
        n \in BodyLens :
       /\ message = [msg_type |-> msg_type, pkt_id |-> pid,
                     start_seq |-> start_seq, snapshot_id |-> snapshot_id,
                     body |-> Body(n),
                     packets |-> build_packet_bytes(msg_type, pid, start_seq,
                                                    Body(n), snapshot_id,
                                                    CodecTime)]
       /\ channel = 1..Len(message.packets)
  /\ dropped = {}
  /\ fragments = EmptyFcn
  /\ delivered = <<>>

\* parse_packet is applied to one of the packets, in any order
ParseDatagram ==
  \E i \in channel :
    /\ channel' = channel \ {i}
    /\ delivered' = Append(delivered,
                           [index |-> i,
                            pkt |-> parse_packet(message.packets[i])])
    /\ UNCHANGED <<message, dropped, fragments>>
    /\ UNCHANGED servervars

CodecNext == ParseDatagram

CodecSpec == CodecInit /\ [][CodecNext]_vars

\* the payloads of the packets 1..n, as parse_packet returns them, in order
RECURSIVE ParsedBody(_)
ParsedBody(n) ==
  IF n = 0 THEN <<>>
  ELSE ParsedBody(n - 1) \o parse_packet(message.packets[n]).payload

\* C32: build_packet emits at least one packet, exactly one for an empty
\* body; parse_packet of the i-th packet (from 0) succeeds and returns the
\* msg_type, pkt_id and snapshot_id of the message and seq = start_seq + i;
\* the returned payloads, concatenated in order, are the body
C32_CodecRoundTrip ==
  /\ Len(message.packets) >= 1
  /\ message.body = <<>> => Len(message.packets) = 1
  /\ \A k \in 1..Len(delivered) :
       LET r == delivered[k].pkt IN
       /\ r.ok
       /\ r.msg_type = message.msg_type
       /\ r.pkt_id = message.pkt_id
       /\ r.snapshot_id = message.snapshot_id
       /\ r.seq = message.start_seq + (delivered[k].index - 1)
  /\ channel = {} => ParsedBody(Len(message.packets)) = message.body

\* every packet of a message of several fragments has been parsed
C32_AllFragmentsParsed ==
  /\ Len(message.packets) >= 2
  /\ channel = {}
  /\ Len(delivered) = Len(message.packets)
  /\ message.start_seq = 255

\* --------------------------------------------------- identity allocation
\* C33: the counters are positive and above every player id and room id in
\* use, so that the next id handed out is larger than all earlier ones; an
\* INIT from an address that is not registered registers it under the next
\* player id, which no entry bears, and advances the counter; a CREATE_ROOM
\* leaves every room that the table already holds as it is
C33_IdsFreshAndRoomsKept ==
  /\ next_player_id > 0
  /\ next_room_id > 0
  /\ \A p \in DOMAIN players \cup DOMAIN seq : 0 < p /\ p < next_player_id
  /\ \A addr \in Addrs \ DOMAIN addr_to_player, sq \in InSeqs :
       LET after == handle_init(
                      SV, Inbound(MESSAGE_TYPES.INIT, sq, 0, <<>>), addr)
       IN /\ after.addr_to_player[addr] = next_player_id
          /\ after.players[next_player_id] = PlayerRoomInfo(addr)
          /\ after.next_player_id = next_player_id + 1
          /\ \A p \in DOMAIN players : after.players[p] = players[p]
  /\ \A addr \in Addrs, sq \in InSeqs :
       LET after == handle_create_room(
                      SV, Inbound(MESSAGE_TYPES.CREATE_ROOM, sq, 0, <<>>),
                      addr)
       IN /\ after.next_room_id >= next_room_id
          /\ \A r \in DOMAIN rooms :
               r \in DOMAIN after.rooms /\ after.rooms[r] = rooms[r]

\* ------------------------------------------------------- broadcast tick
\* the last min(REDUNDANT_K_UPDATES, len(updates)) entries of room.updates
TailOfUpdates(room) ==
  LET n == IF Len(room.updates) < REDUNDANT_K_UPDATES
           THEN Len(room.updates) ELSE REDUNDANT_K_UPDATES
  IN SubSeq(room.updates, Len(room.updates) - n + 1, Len(room.updates))

\* the UPDATES datagrams of a tick that go to the address of the member
\* with player id global_id (none when the server holds no peer for it)
TickSends(after, global_id) ==
  {j \in 1..Len(after.out) :
     /\ global_id \in DOMAIN players
     /\ after.out[j].to = players[global_id].address
     /\ after.out[j].pkt.msg_type = MESSAGE_TYPES.UPDATES}

\* C34: a broadcast tick changes no room; every member of a room that holds
\* REQUIRED_ROOM_PLAYERS players is sent one UPDATES datagram, kept in
\* unacked_packets, whose body is the last min(3, len(updates)) entries of
\* the room's updates; the members of a smaller room are sent nothing
C34_TickReachesEveryMember ==
  LET after == send_updates_to_all(SV)
      added == AddedBy(unacked_packets, after.unacked_packets)
  IN /\ after.rooms = rooms
     /\ \A r \in DOMAIN rooms :
          \A i \in 1..Len(rooms[r].players) :
            LET sends == TickSends(after, rooms[r].players[i].global_id) IN
            IF Len(rooms[r].players) >= REQUIRED_ROOM_PLAYERS
            THEN /\ Cardinality(sends) = 1
                 /\ \A j \in sends :
                      /\ after.out[j].pkt.payload
                           = build_updates_payload(TailOfUpdates(rooms[r]))
                      /\ \E k \in 1..Len(added) :
                           added[k].packet = after.out[j].pkt
            ELSE sends = {}

\* ------------------------------------------------------- JOIN_ACK body
\* the rosters of a room: up to REQUIRED_ROOM_PLAYERS entries with distinct
\* local ids, in any order of insertion; the player at local id l has the
\* player id REQUIRED_ROOM_PLAYERS + l and the colour l
Rosters ==
  {[i \in 1..Len(q) |->
      RoomPlayer(q[i], REQUIRED_ROOM_PLAYERS + q[i], q[i])] :
     q \in {f \in UNION {[1..n -> 1..REQUIRED_ROOM_PLAYERS] :
                           n \in 1..REQUIRED_ROOM_PLAYERS} :
              \A i, j \in DOMAIN f : i # j => f[i] # f[j]}}

\* the dict {lid: (p.global_id, p.color)} that handle_join_room passes to
\* build_join_ack_payload
RosterDict(roster) ==
  [l \in {roster[i].lid : i \in 1..Len(roster)} |->
     LET i == CHOOSE j \in 1..Len(roster) : roster[j].lid = l
     IN <<roster[i].global_id, roster[i].color>>]

\* the server has built the JOIN_ACK body for one member of a roster
JoinAckInit ==
  /\ ServerStart(Constructed)
  /\ \E seq_num \in 1..MaxStartSeq, room_id \in 1..MaxRooms,
        roster \in Rosters :
       \E i \in 1..Len(roster) :
         /\ message = [seq |-> seq_num, room_id |-> room_id,
                       local_id |-> roster[i].lid, roster |-> roster]
         /\ channel = {build_join_ack_payload(seq_num, room_id,
                                              roster[i].lid, roster)}
  /\ dropped = {}
  /\ fragments = EmptyFcn
  /\ delivered = <<>>

\* the member's client parses the body
ParseJoinAck ==
  \E payload \in channel :
    /\ channel' = {}
    /\ delivered' = <<parse_join_ack_payload(payload)>>
    /\ UNCHANGED <<message, dropped, fragments>>
    /\ UNCHANGED servervars

JoinAckNext == ParseJoinAck

JoinAckSpec == JoinAckInit /\ [][JoinAckNext]_vars

\* C35: parse_join_ack_payload of the body that build_join_ack_payload made
\* for a member returns the sequence number, the room id, that member's
\* local id and the roster it was made from
C35_JoinAckRoundTrip ==
  \A k \in 1..Len(delivered) :
    delivered[k] = <<message.seq, message.room_id, message.local_id,
                     RosterDict(message.roster)>>

\* --------------------------------------------- client snapshot consistency
\* the grid of the room as it was when room.snapshot_id was k: an accepted
\* acquisition writes a free cell, so the acquisitions among the last
\* room.snapshot_id - k entries of room.updates are undone (k is within the
\* reach of the deque)
GridAtSnapshot(room, k) ==
  LET undone == LastK(room.updates, room.snapshot_id - k) IN
  [i \in DOMAIN room.grid |->
     IF \E j \in 1..Len(undone) :
          undone[j][1] = CELL_ACQUISITION /\ undone[j][3] + 1 = i
     THEN 0 ELSE room.grid[i]]

\* the client at address a is a member of the room it believes to be in
MemberClient(a) ==
  /\ clients[a].room_id \in DOMAIN rooms
  /\ clients[a].player_id \in DOMAIN players
  /\ players[clients[a].player_id].room_id = clients[a].room_id

\* C36: the snapshot_id of a client that is a member of a room is one that
\* the room has reached, and the client's grid is the room's grid as it was
\* at that snapshot_id
C36_ClientGridIsServerSnapshot ==
  \A a \in DOMAIN clients :
    MemberClient(a) =>
      LET room == rooms[clients[a].room_id]
          k == clients[a].snapshot_id
      IN /\ k <= room.snapshot_id
         /\ room.snapshot_id - k <= Len(room.updates)
              => clients[a].grid = GridAtSnapshot(room, k)

\* ------------------------------------------------------- peer registry
\* C37: every player of the player table is the one that the address map
\* holds for its address, every value of the address map is a player of
\* the table, and seq has an entry for the registered players and no other
C37_RegistryOneToOne ==
  /\ \A p \in DOMAIN players :
       /\ players[p].address \in DOMAIN addr_to_player
       /\ addr_to_player[players[p].address] = p
  /\ \A a \in DOMAIN addr_to_player : addr_to_player[a] \in DOMAIN players
  /\ DOMAIN seq = DOMAIN players

\* --------------------------------------------- roster and player table
\* C38: the slot l of the roster of room r holds player p exactly when the
\* player table has p in room r at local id l: every slot refers to a
\* registered player at that very place, and every player that the table
\* places in a room holds its slot there
C38_RosterMatchesPlayers ==
  /\ \A r \in DOMAIN rooms :
       \A i \in 1..Len(rooms[r].players) :
         LET slot == rooms[r].players[i] IN
         /\ slot.global_id \in DOMAIN players
         /\ players[slot.global_id].room_id = r
         /\ players[slot.global_id].player_local_id = slot.lid
  /\ \A p \in DOMAIN players :
       players[p].room_id # 0 =>
         /\ players[p].room_id \in DOMAIN rooms
         /\ \E i \in 1..Len(rooms[players[p].room_id].players) :
              LET slot == rooms[players[p].room_id].players[i] IN
              slot.global_id = p /\ slot.lid = players[p].player_local_id

\* ------------------------------------------------- membership replies
\* The clients of the room ask to leave while another member, which is not
\* a client of the model, leaves and joins again; every datagram is
\* delivered, in any order.
\* the sequence number of the first request of a member after its INIT and
\* its JOIN_ROOM
MemberNextSeq == send_join_room(ClientConstructed, 1).seq

\* the member that leaves and comes back
Goer == REQUIRED_ROOM_PLAYERS

AckStep(base, s, cs, w) ==
  /\ s.pkt_id <= base.sv.pkt_id + MaxPkts
  /\ \A a \in Online : cs[a].seq <= base.clients[a].seq + MaxClientSends
  /\ Cardinality(w) <= MaxWire + NumClients
  /\ next_player_id' = s.next_player_id
  /\ players' = s.players
  /\ addr_to_player' = s.addr_to_player
  /\ next_room_id' = s.next_room_id
  /\ rooms' = s.rooms
  /\ pkt_id' = s.pkt_id
  /\ seq' = s.seq
  /\ unacked_packets' = s.unacked_packets
  /\ out' = s.out
  /\ clients' = [a \in DOMAIN cs |-> [cs[a] EXCEPT !.out = <<>>]]
  /\ wire' = w
  /\ UNCHANGED fragvars

\* the user interface of a client leaves the room
AckClientLeaves(base) ==
  \E a \in Online :
    /\ clients[a].room_id # 0
    /\ clients[a].unacked_packets = <<>>
    /\ LET c == send_leave_room(clients[a]) IN
       AckStep(base, SV, [clients EXCEPT ![a] = c], wire \cup Uplink(a, c))

\* LEAVE_ROOM of the other member reaches the server
AckMemberLeaves(base) ==
  /\ players[addr_to_player[Goer]].room_id # 0
  /\ LET s == handle_leave_room(
                SV, Inbound(MESSAGE_TYPES.LEAVE_ROOM, MemberNextSeq, 0, <<>>),
                Goer)
     IN AckStep(base, s, clients, wire \cup Downlink(s.out))

\* its next request, JOIN_ROOM for the same room, reaches the server
AckMemberJoins(base) ==
  /\ players[addr_to_player[Goer]].room_id = 0
  /\ \E color \in ColorDraws(1) :
       LET s == handle_join_room(
                  SV, Inbound(MESSAGE_TYPES.JOIN_ROOM, MemberNextSeq + 1, 0,
                              build_join_room_payload(1)), Goer, color)
       IN AckStep(base, s, clients, wire \cup Downlink(s.out))

AckServerReceives(base) ==
  \E d \in wire :
    /\ d.up
    /\ LET s == handle_recv(SV, d.pkt, d.peer, 1) IN
       AckStep(base, s, clients, (wire \ {d}) \cup Downlink(s.out))

AckClientReceives(base) ==
  \E d \in wire :
    /\ ~d.up
    /\ LET c == client_handle_recv(clients[d.peer], d.pkt) IN
       AckStep(base, SV, [clients EXCEPT ![d.peer] = c],
               (wire \ {d}) \cup Uplink(d.peer, c))

AckNext ==
  \/ AckClientLeaves(Formed)
  \/ AckMemberLeaves(Formed)
  \/ AckMemberJoins(Formed)
  \/ AckServerReceives(Formed)
  \/ AckClientReceives(Formed)

AckSpec == SystemInit /\ [][AckNext]_vars

\* a JOIN_ACK or LEAVE_ACK on its way to a client that the server fanned
\* out for the request of another member: the joiner is the last entry of
\* the roster of a JOIN_ACK, and the roster of a LEAVE_ACK holds the
\* members that stay
AckOfAnother(d) ==
  LET pl == d.pkt.payload
      me == clients[d.peer].player_id
  IN /\ ~d.up
     /\ \/ /\ d.pkt.msg_type = MESSAGE_TYPES.JOIN_ACK
           /\ pl[4] > 0
           /\ pl[4 + 3 * (pl[4] - 1) + 1] # me
        \/ /\ d.pkt.msg_type = MESSAGE_TYPES.LEAVE_ACK
           /\ \E i \in 1..pl[2] : pl[2 + 3 * (i - 1) + 1] = me

\* C39: a JOIN_ACK or LEAVE_ACK fanned out for another member's request
\* leaves the receiving client's unacked_packets, room_id and local_id as
\* they are
C39_ForeignAckChangesNothing ==
  \A d \in wire :
    AckOfAnother(d) =>
      LET c == clients[d.peer]
          after == client_handle_recv(c, d.pkt)
      IN /\ after.unacked_packets = c.unacked_packets
         /\ after.room_id = c.room_id
         /\ after.local_id = c.local_id

\* ------------------------------------------------- what a client believes
\* The clients of NumClients addresses from their construction on: each has
\* sent INIT; a client whose INIT is answered creates a room, which makes it
\* join, or joins a room of the server; requests are retransmitted.  No
\* client leaves or disconnects, so a player that the server has admitted
\* to a room is in the roster of that room.
\* retransmissions of one request of a client
MaxResends == 1

BeliefStep(base, s, cs, w) ==
  /\ s.next_player_id <= base.sv.next_player_id + NumClients + MaxNewPlayers
  /\ DOMAIN s.rooms \subseteq 1..MaxRooms
  /\ s.pkt_id <= base.sv.pkt_id + NumClients + MaxNewPlayers + MaxPkts
  /\ \A a \in Online : cs[a].seq <= base.clients[a].seq + MaxClientSends
  /\ \A a \in Online :
       \A i \in 1..Len(cs[a].unacked_packets) :
         cs[a].unacked_packets[i].sent_count <= MaxResends
  /\ Cardinality(w) <= MaxWire
  /\ next_player_id' = s.next_player_id
  /\ players' = s.players
  /\ addr_to_player' = s.addr_to_player
  /\ next_room_id' = s.next_room_id
  /\ rooms' = s.rooms
  /\ pkt_id' = s.pkt_id
  /\ seq' = s.seq
  /\ unacked_packets' = s.unacked_packets
  /\ out' = s.out
  /\ clients' = [a \in DOMAIN cs |-> [cs[a] EXCEPT !.out = <<>>]]
  /\ wire' = w
  /\ UNCHANGED fragvars

BeliefInit ==
  /\ next_player_id = Constructed.next_player_id
  /\ players = Constructed.players
  /\ addr_to_player = Constructed.addr_to_player
  /\ next_room_id = Constructed.next_room_id
  /\ rooms = Constructed.rooms
  /\ pkt_id = Constructed.pkt_id
  /\ seq = Constructed.seq
  /\ unacked_packets = Constructed.unacked_packets
  /\ out = <<>>
  /\ clients = [a \in Online |-> [ClientConstructed EXCEPT !.out = <<>>]]
  /\ wire = UNION {Uplink(a, ClientConstructed) : a \in Online}
  /\ NoFragments

\* the user interface creates a room once the client has its player_id
BeliefCreates(base) ==
  \E a \in Online :
    /\ clients[a].player_id # 0
    /\ clients[a].unacked_packets = <<>>
    /\ clients[a].room_id = 0
    /\ LET c == send_create_room(clients[a]) IN
       BeliefStep(base, SV, [clients EXCEPT ![a] = c], wire \cup Uplink(a, c))

\* the user interface joins a room of the server's list
BeliefJoins(base) ==
  \E a \in Online, r \in DOMAIN rooms :
    /\ clients[a].player_id # 0
    /\ clients[a].unacked_packets = <<>>
    /\ clients[a].room_id = 0
    /\ LET c == send_join_room(clients[a], r) IN
       BeliefStep(base, SV, [clients EXCEPT ![a] = c], wire \cup Uplink(a, c))

BeliefRetransmits(base) ==
  \E a \in Online :
    \E cut \in 1..Len(clients[a].unacked_packets) :
      LET c == client_retransmit(clients[a], cut) IN
      BeliefStep(base, SV, [clients EXCEPT ![a] = c], wire \cup Uplink(a, c))

BeliefServerReceives(base) ==
  \E d \in wire :
    /\ d.up
    /\ \E color \in JoinColors(d.pkt) :
         LET s == handle_recv(SV, d.pkt, d.peer, color) IN
         BeliefStep(base, s, clients, (wire \ {d}) \cup Downlink(s.out))

BeliefClientReceives(base) ==
  \E d \in wire :
    /\ ~d.up
    /\ LET c == client_handle_recv(clients[d.peer], d.pkt) IN
       BeliefStep(base, SV, [clients EXCEPT ![d.peer] = c],
                  (wire \ {d}) \cup Uplink(d.peer, c))

BeliefNext ==
  \/ BeliefCreates(SystemConstructed)
  \/ BeliefJoins(SystemConstructed)
  \/ BeliefRetransmits(SystemConstructed)
  \/ BeliefServerReceives(SystemConstructed)
  \/ BeliefClientReceives(SystemConstructed)

BeliefSpec == BeliefInit /\ [][BeliefNext]_vars

\* the roster of room r holds the player p
Admitted(p, r) ==
  /\ r \in DOMAIN rooms
  /\ \E i \in 1..Len(rooms[r].players) : rooms[r].players[i].global_id = p

\* C40: a client that has a room_id is a player the server has admitted to
\* that room, and a client that has a player_id has the one the server's
\* address map holds for its address
C40_BeliefFollowsServer ==
  \A a \in DOMAIN clients :
    /\ clients[a].room_id # 0 => Admitted(clients[a].player_id, clients[a].room_id)
    /\ clients[a].player_id # 0 =>
         /\ a \in DOMAIN addr_to_player
         /\ addr_to_player[a] = clients[a].player_id

\* the first half alone
C40_RoomOnlyAfterAdmission ==
  \A a \in DOMAIN clients :
    clients[a].room_id # 0 => Admitted(clients[a].player_id, clients[a].room_id)

\* the second half alone
C40_PlayerIdIsServers ==
  \A a \in DOMAIN clients :
    clients[a].player_id # 0 =>
      /\ a \in DOMAIN addr_to_player
      /\ addr_to_player[a] = clients[a].player_id
====
